---- MODULE Spec2Model ----
(***************************************************************************)
(* Pakistan RP community bot: the ticket lifecycle (AdvancedTicketSystem,  *)
(* its callers in the UI, the bot's cleanup loop and the automation        *)
(* engine) and the rule index (RuleManagementSystem) with the violation    *)
(* table of CommunityDatabase.                                             *)
(***************************************************************************)
EXTENDS Integers, Sequences, FiniteSets, TLC

(***************************************************************************)
(* Bounds of the model.                                                    *)
(***************************************************************************)
MaxTickets == 1
MaxMsgs == 1
MaxRestarts == 1
MaxTime == 144
TickHours == 72

(***************************************************************************)
(* Program constants.                                                      *)
(***************************************************************************)
TICKET_AUTO_CLOSE_HOURS == 72

VARIABLES
    now,              \* datetime.utcnow(), in hours
    ticket_counter,   \* AdvancedTicketSystem.ticket_counter
    active_tickets,   \* AdvancedTicketSystem.active_tickets: ticket id -> dict object
    ticket_data,      \* the ticket dict objects, by object reference
    channels,         \* the guild's ticket channels, by channel id
    db_tickets,       \* table tickets of the store, by primary key ticket_id
    stats,            \* bot.stats and automation_stats
    procs,            \* the coroutines: cleanup loop, automation rule, staff handler
    views,            \* channels whose TicketManagementView is registered
    restarts,         \* process restarts so far
    posted,           \* messages posted by guild members so far
    h_dms,            \* history: closing DMs delivered to the requester, per ticket
    h_incs,           \* history: tickets_resolved increments, per ticket
    h_closed_ok,      \* history: tickets for which close_ticket returned True
    rules_database,   \* RuleManagementSystem.rules_database: rule id -> rule_data
    rules_file,       \* the content of rule_database/rules.json
    rules_accessed,   \* bot.stats['rules_accessed']
    returned,         \* the value the last call into the rule system or of
                      \* create_ticket returned
    violations,       \* table rule_violations of the store, in rowid order
    h_calls,          \* history: get_appropriate_punishment calls, per (user, rule)
    h_fault,          \* history: a store call failed in the series of (user, rule)
    h_last,           \* history: the offense count of the latest call for (user, rule)
    submitted,        \* TicketCreationModal.category.value of each ticket's submit
    modals,           \* the TicketCreationModals shown and not yet submitted, per user
    shutdown,         \* the bot: "up", "closing" (in close()), "closed", "exited"
    loops,            \* the three tasks.loop tasks of the bot
    rule_objs,        \* the automation rule dicts, by object reference
    automation_rules, \* AutomationEngine.automation_rules: name -> rule dict
    tasks,            \* the asyncio tasks made for run_automation_rule
    scheduled_tasks   \* AutomationEngine.scheduled_tasks: name -> task

tvars == <<now, ticket_counter, active_tickets, ticket_data, channels, db_tickets,
           stats, procs, views, restarts, posted,
           h_dms, h_incs, h_closed_ok,
           submitted, modals, shutdown, loops, rule_objs, automation_rules, tasks,
           scheduled_tasks>>

\* the shutdown state, the periodic tasks and the automation rules
lvars == <<shutdown, loops, rule_objs, automation_rules, tasks, scheduled_tasks>>

rvars == <<rules_database, rules_file, rules_accessed>>

pvars == <<violations, h_calls, h_fault, h_last>>

vars == <<tvars, rvars, returned, pvars>>

\* the tasks.loop tasks of PakistanRPCommunityBot
LoopNames == {"auto_ticket_cleanup", "update_statistics", "automated_maintenance"}

(***************************************************************************)
(* Guild members.                                                          *)
(***************************************************************************)
BotUser == "bot"
Members == {"alice", "sam"}
Requesters == {"alice"}
StaffMembers == {"sam"}
NoStaff == "none"
NoTicket == <<>>

\* AdvancedPermissions.is_staff
is_staff(user) == user \in StaffMembers

(***************************************************************************)
(* Strings.  A string that the code splits on '-' is the sequence of its   *)
(* '-'-separated parts.                                                    *)
(***************************************************************************)
\* str.upper() on the parts that occur
Upper(s) ==
    CASE s = "tkt" -> "TKT"
      [] s = "ticket" -> "TICKET"
      [] s = "alice" -> "ALICE"
      [] s = "sam" -> "SAM"
      [] s = "general" -> "GENERAL"
      [] OTHER -> s

\* str.lower() on the parts that occur
Lower(s) ==
    CASE s = "TKT" -> "tkt"
      [] OTHER -> s

(***************************************************************************)
(* Texts.  A text whose characters the code looks at is the sequence of    *)
(* its characters.                                                         *)
(***************************************************************************)
\* str.lower() of a character
LowerChar(c) ==
    CASE c = "A" -> "a"
      [] c = "B" -> "b"
      [] c = "C" -> "c"
      [] c = "D" -> "d"
      [] c = "E" -> "e"
      [] c = "F" -> "f"
      [] c = "G" -> "g"
      [] c = "H" -> "h"
      [] c = "I" -> "i"
      [] c = "J" -> "j"
      [] c = "K" -> "k"
      [] c = "L" -> "l"
      [] c = "M" -> "m"
      [] c = "N" -> "n"
      [] c = "O" -> "o"
      [] c = "P" -> "p"
      [] c = "Q" -> "q"
      [] c = "R" -> "r"
      [] c = "S" -> "s"
      [] c = "T" -> "t"
      [] c = "U" -> "u"
      [] c = "V" -> "v"
      [] c = "W" -> "w"
      [] c = "X" -> "x"
      [] c = "Y" -> "y"
      [] c = "Z" -> "z"
      [] OTHER -> c

\* str.upper() of a character
UpperChar(c) ==
    CASE c = "a" -> "A"
      [] c = "b" -> "B"
      [] c = "c" -> "C"
      [] c = "d" -> "D"
      [] c = "e" -> "E"
      [] c = "f" -> "F"
      [] c = "g" -> "G"
      [] c = "h" -> "H"
      [] c = "i" -> "I"
      [] c = "j" -> "J"
      [] c = "k" -> "K"
      [] c = "l" -> "L"
      [] c = "m" -> "M"
      [] c = "n" -> "N"
      [] c = "o" -> "O"
      [] c = "p" -> "P"
      [] c = "q" -> "Q"
      [] c = "r" -> "R"
      [] c = "s" -> "S"
      [] c = "t" -> "T"
      [] c = "u" -> "U"
      [] c = "v" -> "V"
      [] c = "w" -> "W"
      [] c = "x" -> "X"
      [] c = "y" -> "Y"
      [] c = "z" -> "Z"
      [] OTHER -> c

IsLetter(c) == LowerChar(c) # c \/ UpperChar(c) # c

StrLower(s) == [i \in 1..Len(s) |-> LowerChar(s[i])]

\* str.title(): a letter that follows a letter is lower-cased, every other
\* letter is upper-cased
Title(s) ==
    [i \in 1..Len(s) |->
        IF i > 1 /\ IsLetter(s[i - 1]) THEN LowerChar(s[i]) ELSE UpperChar(s[i])]

\* sub in s
Contains(sub, s) ==
    \E i \in 0..(Len(s) - Len(sub)) : SubSeq(s, i + 1, i + Len(sub)) = sub

\* f"{n:04d}"
Fmt04d(n) ==
    CASE n = 1 -> "0001"
      [] n = 2 -> "0002"
      [] n = 3 -> "0003"
      [] n = 4 -> "0004"
      [] n = 5 -> "0005"
      [] n = 6 -> "0006"
      [] n = 7 -> "0007"
      [] n = 8 -> "0008"
      [] OTHER -> "0009"

\* ticket_id = f"TKT-{self.ticket_counter:04d}"
TicketId(n) == <<"TKT", Fmt04d(n)>>

\* channel_name = f"ticket-{ticket_id.lower()}-{user.display_name}".replace(" ", "-")
ChannelName(tid, display_name) ==
    <<"ticket">> \o [i \in 1..Len(tid) |-> Lower(tid[i])] \o <<display_name>>

\* Channels of the guild that create_ticket did not make.
OtherChannels == {<<"general">>, <<"ticket", "0001">>}

(***************************************************************************)
(* Records.                                                                *)
(***************************************************************************)
\* ticket_data of create_ticket
NewTicket(tid, user, category, chan, t) ==
    [ticket_id |-> tid, user_id |-> user, channel_id |-> chan, category |-> category,
     created_at |-> t, last_activity |-> t, status |-> "open",
     assigned_staff |-> NoStaff, staff_involved |-> <<>>, staff_text |-> FALSE]

\* a row of table tickets as create_ticket inserts it
NewRow(td) ==
    [ticket_id |-> td.ticket_id, user_id |-> td.user_id, channel_id |-> td.channel_id,
     category |-> td.category,
     created_at |-> td.created_at, last_activity |-> td.last_activity,
     status |-> td.status]

\* dict(row) of a row of table tickets: assigned_staff is NULL and
\* staff_involved is the column's TEXT default '[]'
FromRow(row) ==
    [ticket_id |-> row.ticket_id, user_id |-> row.user_id, channel_id |-> row.channel_id,
     category |-> row.category,
     created_at |-> row.created_at, last_activity |-> row.last_activity,
     status |-> row.status,
     assigned_staff |-> NoStaff, staff_involved |-> <<>>, staff_text |-> TRUE]

\* a message of a channel: its place in the channel's history and its author
Message(n, author) == [n |-> n, author |-> author]

Sweepers == {"loop", "auto"}
Procs == Sweepers \cup {"staff"}

IdleProc ==
    [pc |-> "idle", tid |-> NoTicket, ref |-> 0, chan |-> 0,
     transcript |-> <<>>, at_close |-> <<>>,
     entered |-> FALSE, result |-> FALSE,
     snap |-> <<>>, cleaned |-> 0]

Put(f, k, v) == [x \in DOMAIN f \cup {k} |-> IF x = k THEN v ELSE f[x]]

(***************************************************************************)
(* A Python dict keeps its keys in insertion order: a sequence of items.   *)
(***************************************************************************)
Keys(d) == {d[i].id : i \in 1..Len(d)}
Lookup(d, k) == d[CHOOSE i \in 1..Len(d) : d[i].id = k].ref
\* d[k] = v
DictSet(d, k, v) ==
    IF k \in Keys(d)
    THEN [i \in 1..Len(d) |-> IF d[i].id = k THEN [id |-> k, ref |-> v] ELSE d[i]]
    ELSE Append(d, [id |-> k, ref |-> v])
\* del d[k]
DictDel(d, k) ==
    LET keep(e) == e.id # k IN SelectSeq(d, keep)

(***************************************************************************)
(* Initial state: the bot has started on an empty store.                   *)
(***************************************************************************)
TicketInit ==
    /\ now = 0
    /\ ticket_counter = 0
    /\ active_tickets = <<>>
    /\ ticket_data = <<>>
    /\ channels = <<>>
    /\ db_tickets = <<>>
    /\ stats = [tickets_created |-> 0, tickets_resolved |-> 0,
                automated_actions |-> 0, tickets_auto_closed |-> 0]
    /\ procs = [p \in Procs |-> IdleProc]
    /\ views = <<>>
    /\ restarts = 0
    /\ posted = 0
    /\ h_dms = <<>>
    /\ h_incs = <<>>
    /\ h_closed_ok = {}
    /\ submitted = <<>>
    /\ modals = [u \in Members |-> 0]
    /\ shutdown = "up"
    /\ loops = [l \in LoopNames |-> [running |-> FALSE, current_loop |-> 0]]
    /\ rule_objs = <<>>
    /\ automation_rules = <<>>
    /\ tasks = <<>>
    /\ scheduled_tasks = <<>>

\* the rule system after initialize() on a rules file that holds no rule, and
\* an empty table rule_violations
RuleInit ==
    /\ rules_database = <<>>
    /\ rules_file = <<>>
    /\ rules_accessed = 0
    /\ returned = [op |-> "none"]
    /\ violations = <<>>
    /\ h_calls = <<>>
    /\ h_fault = <<>>
    /\ h_last = <<>>

Init == TicketInit /\ RuleInit

\* the clock advances
Tick ==
    /\ now + TickHours <= MaxTime
    /\ now' = now + TickHours
    /\ UNCHANGED <<rvars, returned, pvars, submitted, modals, lvars, ticket_counter, active_tickets, ticket_data, channels, db_tickets,
                   stats, procs, views, restarts, posted,
                   h_dms, h_incs, h_closed_ok>>

(***************************************************************************)
(* create_ticket                                                           *)
(***************************************************************************)
\* CommunityDatabase.create_ticket: INSERT INTO tickets; a second row with
\* the same primary key is an error, which is logged and dropped
db_create_ticket(rows, td) ==
    IF td.ticket_id \notin DOMAIN rows
    THEN Put(rows, td.ticket_id, NewRow(td))
    ELSE rows

\* AdvancedTicketSystem.create_ticket, called by TicketCreationModal.on_submit
CreateTicket(user, category) ==
    LET chan == Cardinality(DOMAIN channels) + 1
        tid == TicketId(ticket_counter + 1)
        td == NewTicket(tid, user, category, chan, now)
    IN  /\ chan <= MaxTickets
        /\ ticket_counter' = ticket_counter + 1
        /\ channels' = Put(channels, chan,
                           [name |-> ChannelName(tid, user), exists |-> TRUE,
                            msgs |-> <<Message(1, BotUser), Message(2, BotUser)>>])
        /\ ticket_data' = Put(ticket_data, chan, td)
        /\ active_tickets' = DictSet(active_tickets, tid, chan)
        /\ views' = Put(views, chan, tid)
        /\ db_tickets' = db_create_ticket(db_tickets, td)
        /\ stats' = [stats EXCEPT !.tickets_created = @ + 1]
        /\ h_dms' = Put(h_dms, chan, 0)
        /\ h_incs' = Put(h_incs, chan, 0)
        /\ UNCHANGED <<rvars, returned, pvars, modals, lvars, now, procs, restarts, posted,
                       h_closed_ok>>

(***************************************************************************)
(* The ticket creation modal                                               *)
(***************************************************************************)
Support == <<"S", "u", "p", "p", "o", "r", "t">>
PlayerReport == <<"P", "l", "a", "y", "e", "r", " ", "R", "e", "p", "o", "r", "t">>
BugReport == <<"B", "u", "g", " ", "R", "e", "p", "o", "r", "t">>
GangRegistration ==
    <<"G", "a", "n", "g", " ", "R", "e", "g", "i", "s", "t", "r", "a", "t", "i", "o", "n">>
Shop == <<"S", "h", "o", "p">>
Other == <<"O", "t", "h", "e", "r">>

valid_categories ==
    <<Support, PlayerReport, BugReport, GangRegistration, Shop, Other>>

\* a validation without the search for a close match
validated_category_strict(value) ==
    IF \E k \in 1..Len(valid_categories) : valid_categories[k] = Title(value)
    THEN Title(value)
    ELSE Other

\* the category that TicketCreationModal.on_submit passes to create_ticket
\* for the text of the category field
validated_category(value) ==
    LET category == Title(value)
        category_lower == StrLower(value)
        close == {k \in 1..Len(valid_categories) :
                     \/ Contains(StrLower(valid_categories[k]), category_lower)
                     \/ Contains(category_lower, StrLower(valid_categories[k]))}
    IN  IF \E k \in 1..Len(valid_categories) : valid_categories[k] = category
        THEN category
        ELSE IF close # {}
        THEN valid_categories[CHOOSE k \in close : \A j \in close : k <= j]
        ELSE Other

\* TicketCreationModal.on_submit
SubmitTicket(user, value) ==
    /\ submitted' = Put(submitted, Cardinality(DOMAIN channels) + 1, value)
    /\ CreateTicket(user, validated_category(value))

(***************************************************************************)
(* on_message and log_message                                              *)
(***************************************************************************)
InList(x, list) == \E i \in 1..Len(list) : list[i] = x

\* AdvancedTicketSystem.log_message: the ticket objects after the call
log_message(name, author) ==
    IF ~(Len(name) >= 2 /\ name[1] = "ticket")
    THEN ticket_data
    ELSE LET tid == <<"TKT", Upper(name[2])>> IN
         IF tid \notin Keys(active_tickets)
         THEN ticket_data
         ELSE LET ref == Lookup(active_tickets, tid)
                  td == [ticket_data[ref] EXCEPT !.last_activity = now]
              IN  IF is_staff(author) /\ ~td.staff_text
                                      /\ ~InList(author, td.staff_involved)
                  THEN [ticket_data EXCEPT
                            ![ref] = [td EXCEPT !.staff_involved = Append(@, author)]]
                  ELSE [ticket_data EXCEPT ![ref] = td]

\* PakistanRPCommunityBot.on_message: the ticket objects after the call
on_message(name, author) ==
    IF author = BotUser
    THEN ticket_data
    ELSE IF Len(name) >= 2 /\ name[1] = "ticket"
         THEN log_message(name, author)
         ELSE ticket_data

\* a message arrives in a channel that create_ticket made
PostInTicketChannel(chan, author) ==
    /\ posted < MaxMsgs
    /\ chan \in DOMAIN channels
    /\ channels[chan].exists
    /\ posted' = posted + 1
    /\ channels' = [channels EXCEPT ![chan].msgs =
                        Append(@, Message(Len(@) + 1, author))]
    /\ ticket_data' = on_message(channels[chan].name, author)
    /\ UNCHANGED <<rvars, returned, pvars, submitted, modals, lvars, now, ticket_counter, active_tickets, db_tickets, stats, procs,
                   views, restarts, h_dms, h_incs, h_closed_ok>>

\* a message arrives in another channel of the guild
PostElsewhere(name, author) ==
    /\ posted < MaxMsgs
    /\ posted' = posted + 1
    /\ ticket_data' = on_message(name, author)
    /\ UNCHANGED <<rvars, returned, pvars, submitted, modals, lvars, now, ticket_counter, active_tickets, channels, db_tickets, stats,
                   procs, views, restarts, h_dms, h_incs, h_closed_ok>>

(***************************************************************************)
(* The "Assign to Me" button                                               *)
(***************************************************************************)
\* TicketManagementView.assign_ticket_button of the view in channel chan
AssignTicket(chan, user) ==
    /\ chan \in DOMAIN views
    /\ channels[chan].exists
    /\ is_staff(user)
    /\ views[chan] \in Keys(active_tickets)
    /\ LET ref == Lookup(active_tickets, views[chan]) IN
       /\ ticket_data[ref].assigned_staff # user
       /\ ticket_data' = [ticket_data EXCEPT ![ref].assigned_staff = user]
    /\ UNCHANGED <<rvars, returned, pvars, submitted, modals, lvars, now, ticket_counter, active_tickets, channels, db_tickets, stats,
                   procs, views, restarts, posted,
                   h_dms, h_incs, h_closed_ok>>

(***************************************************************************)
(* Restart: __init__ of every system, then load_active_tickets             *)
(***************************************************************************)
\* CommunityDatabase.get_active_tickets: the open rows, in rowid order
RECURSIVE OpenRows(_)
OpenRows(c) ==
    IF c = 0 THEN <<>>
    ELSE LET rows == {t \in DOMAIN db_tickets :
                         db_tickets[t].channel_id = c /\ db_tickets[t].status = "open"}
         IN  IF rows = {} THEN OpenRows(c - 1)
             ELSE Append(OpenRows(c - 1), db_tickets[CHOOSE t \in rows : TRUE])

db_get_active_tickets == OpenRows(Cardinality(DOMAIN channels))

\* the process stops and starts again
Restart ==
    LET rows == db_get_active_tickets IN
    /\ restarts < MaxRestarts
    /\ restarts' = restarts + 1
    /\ ticket_counter' = 0
    /\ stats' = [tickets_created |-> 0, tickets_resolved |-> 0,
                 automated_actions |-> 0, tickets_auto_closed |-> 0]
    /\ procs' = [p \in Procs |-> IdleProc]
    /\ views' = <<>>
    /\ active_tickets' = [i \in 1..Len(rows) |->
                             [id |-> rows[i].ticket_id, ref |-> rows[i].channel_id]]
    /\ ticket_data' = [c \in {rows[i].channel_id : i \in 1..Len(rows)} |->
                          FromRow(rows[CHOOSE i \in 1..Len(rows) : rows[i].channel_id = c])]
    /\ modals' = [u \in Members |-> 0]
    /\ UNCHANGED <<rvars, returned, pvars, submitted, lvars, now, channels, db_tickets, posted,
                   h_dms, h_incs, h_closed_ok>>

(***************************************************************************)
(* close_ticket, as the coroutine p runs it.  A step is the code between   *)
(* two suspensions; the suspensions are the platform and store calls:      *)
(*   "history"  channel.history in generate_transcript                     *)
(*   "dm"       user.send                                                  *)
(*   "logs"     the sends of send_transcript_to_logs and log_ticket_action *)
(*   "db"       CommunityDatabase.close_ticket                             *)
(***************************************************************************)
\* bot.get_channel(c) is not None
get_channel(chs, c) == c \in DOMAIN chs /\ chs[c].exists

\* the line generate_transcript writes for a message
TranscriptLine(m) == <<m.author, m.n>>

\* channel.history(limit=None, oldest_first=True)
history(msgs) == msgs

\* AdvancedTicketSystem.generate_transcript: the conversation log
generate_transcript(msgs) ==
    [i \in 1..Len(history(msgs)) |-> TranscriptLine(history(msgs)[i])]

\* p after close_ticket has returned to its caller: the locals of close_ticket
\* are gone
Returned(p, rec, result) ==
    [IdleProc EXCEPT !.pc = IF p = "staff" THEN "followup" ELSE "delete",
                     !.chan = rec.chan, !.snap = rec.snap, !.cleaned = rec.cleaned,
                     !.result = result]

\* the ticket objects that are still referenced: by the active map, by a
\* close_ticket in progress or by a snapshot of cleanup_old_tickets
Referenced(act, prcs) ==
    {act[i].ref : i \in 1..Len(act)}
        \cup {prcs[p].ref : p \in {q \in Procs : prcs[q].ref # 0}}
        \cup UNION {{prcs[p].snap[i].ref : i \in 1..Len(prcs[p].snap)} : p \in Procs}

\* the objects after garbage collection
Collect(td, act, prcs) ==
    [r \in DOMAIN td \cap Referenced(act, prcs) |-> td[r]]

\* close_ticket(tid) from its first line to its first suspension
CloseEntry(p, tid, base, chs) ==
    IF tid \notin Keys(active_tickets)
    THEN [proc |-> Returned(p, base, FALSE), td |-> ticket_data]
    ELSE LET ref == Lookup(active_tickets, tid)
             c == ticket_data[ref].channel_id
             td == [ticket_data EXCEPT ![ref].status = "closed"]
             me == [base EXCEPT !.tid = tid, !.ref = ref, !.entered = TRUE,
                                !.at_close = chs[c].msgs]
         IN  IF get_channel(chs, c)
             THEN [proc |-> [me EXCEPT !.pc = "history"], td |-> td]
             ELSE [proc |-> [me EXCEPT !.pc = "dm",
                                       !.transcript = generate_transcript(<<>>)],
                   td |-> td]

\* CommunityDatabase.close_ticket
db_close_ticket(rows, tid, dbOk) ==
    IF dbOk /\ tid \in DOMAIN rows
    THEN [rows EXCEPT ![tid].status = "closed"]
    ELSE rows

\* channel.history returns (ok) or raises; the transcript is generated
HistoryStep(p, ok) ==
    LET me == procs[p]
        c == ticket_data[me.ref].channel_id
    IN  /\ me.pc = "history"
        /\ ok => channels[c].exists
        /\ procs' = [procs EXCEPT ![p] =
                        IF ok
                        THEN [me EXCEPT !.pc = "dm",
                                        !.transcript = generate_transcript(channels[c].msgs)]
                        ELSE Returned(p, me, FALSE)]
        /\ UNCHANGED <<rvars, returned, pvars, submitted, modals, lvars, now, ticket_counter, active_tickets, channels,
                       db_tickets, stats, views, restarts, posted,
                       h_dms, h_incs, h_closed_ok>>
        /\ ticket_data' = Collect(ticket_data, active_tickets', procs')

\* user.send returns ("ok": with the transcript file; "nofile": save_transcript
\* had failed and the embed goes alone), raises discord.Forbidden, or raises
\* another HTTPException ("error")
DmStep(p, outcome) ==
    LET me == procs[p] IN
    /\ me.pc = "dm"
    /\ procs' = [procs EXCEPT ![p] =
                    IF outcome = "error"
                    THEN Returned(p, me, FALSE)
                    ELSE [me EXCEPT !.pc = "logs"]]
    /\ h_dms' = IF outcome = "ok" THEN [h_dms EXCEPT ![me.ref] = @ + 1] ELSE h_dms
    /\ UNCHANGED <<rvars, returned, pvars, submitted, modals, lvars, now, ticket_counter, active_tickets, channels,
                   db_tickets, stats, views, restarts, posted, h_incs, h_closed_ok>>
    /\ ticket_data' = Collect(ticket_data, active_tickets', procs')

\* the log channels' sends return or raise (caught where they are made)
LogsStep(p) ==
    /\ procs[p].pc = "logs"
    /\ procs' = [procs EXCEPT ![p].pc = "db"]
    /\ UNCHANGED <<rvars, returned, pvars, submitted, modals, lvars, now, ticket_counter, active_tickets, ticket_data, channels,
                   db_tickets, stats, views, restarts, posted,
                   h_dms, h_incs, h_closed_ok>>

\* the store call returns; then lines 346-352 of close_ticket
DbStep(p, dbOk) ==
    LET me == procs[p]
        present == me.tid \in Keys(active_tickets)
    IN  /\ me.pc = "db"
        /\ db_tickets' = db_close_ticket(db_tickets, me.tid, dbOk)
        /\ stats' = [stats EXCEPT !.tickets_resolved = @ + 1]
        /\ h_incs' = [h_incs EXCEPT ![me.ref] = @ + 1]
        /\ active_tickets' = DictDel(active_tickets, me.tid)
        /\ h_closed_ok' = IF present THEN h_closed_ok \cup {me.ref} ELSE h_closed_ok
        /\ procs' = [procs EXCEPT ![p] = Returned(p, me, present)]
        /\ UNCHANGED <<rvars, returned, pvars, submitted, modals, lvars, now, ticket_counter, channels, views, restarts, posted, h_dms>>
        /\ ticket_data' = Collect(ticket_data, active_tickets', procs')

(***************************************************************************)
(* The "Close Ticket" button and CloseTicketModal                          *)
(***************************************************************************)
\* TicketManagementView.close_ticket_button: the modal is shown
ClickClose(chan, user) ==
    /\ procs["staff"].pc = "idle"
    /\ chan \in DOMAIN views
    /\ channels[chan].exists
    /\ is_staff(user)
    /\ procs' = [procs EXCEPT !["staff"] =
                    [IdleProc EXCEPT !.pc = "modal", !.tid = views[chan], !.chan = chan]]
    /\ UNCHANGED <<rvars, returned, pvars, submitted, modals, lvars, now, ticket_counter, active_tickets, ticket_data, channels,
                   db_tickets, stats, views, restarts, posted,
                   h_dms, h_incs, h_closed_ok>>

\* CloseTicketModal.on_submit up to the first suspension of close_ticket
SubmitClose ==
    LET me == procs["staff"]
        e == CloseEntry("staff", me.tid, [IdleProc EXCEPT !.chan = me.chan], channels)
    IN  /\ me.pc = "modal"
        /\ procs' = [procs EXCEPT !["staff"] = e.proc]
        /\ ticket_data' = e.td
        /\ UNCHANGED <<rvars, returned, pvars, submitted, modals, lvars, now, ticket_counter, active_tickets, channels, db_tickets,
                       stats, views, restarts, posted, h_dms, h_incs, h_closed_ok>>

\* on_submit after close_ticket returned: the followup is sent
FollowupStep ==
    LET me == procs["staff"] IN
    /\ me.pc = "followup"
    /\ procs' = [procs EXCEPT !["staff"] =
                    IF me.result THEN [me EXCEPT !.pc = "sleep"] ELSE IdleProc]
    /\ UNCHANGED <<rvars, returned, pvars, submitted, modals, lvars, now, ticket_counter, active_tickets, ticket_data, channels,
                   db_tickets, stats, views, restarts, posted,
                   h_dms, h_incs, h_closed_ok>>

\* on_submit: asyncio.sleep(30) is over, interaction.channel.delete
SleepStep ==
    LET me == procs["staff"] IN
    /\ me.pc = "sleep"
    /\ channels' = [channels EXCEPT ![me.chan].exists = FALSE]
    /\ procs' = [procs EXCEPT !["staff"] = IdleProc]
    /\ UNCHANGED <<rvars, returned, pvars, submitted, modals, lvars, now, ticket_counter, active_tickets, ticket_data, db_tickets,
                   stats, views, restarts, posted,
                   h_dms, h_incs, h_closed_ok>>

(***************************************************************************)
(* cleanup_old_tickets, run by the bot's 30 minute loop ("loop") and by    *)
(* the automation engine's rule ticket_auto_close ("auto")                 *)
(***************************************************************************)
\* the test of cleanup_old_tickets on one item of its snapshot
Due(item, chs) ==
    /\ now - ticket_data[item.ref].created_at > TICKET_AUTO_CLOSE_HOURS
    /\ get_channel(chs, ticket_data[item.ref].channel_id)

RECURSIVE FirstDue(_, _, _)
FirstDue(snap, chs, i) ==
    IF i > Len(snap) THEN 0
    ELSE IF Due(snap[i], chs) THEN i
    ELSE FirstDue(snap, chs, i + 1)

\* AutomationEngine.check_inactive_tickets
check_inactive_tickets ==
    \E i \in 1..Len(active_tickets) :
        ticket_data[active_tickets[i].ref].last_activity < now - TICKET_AUTO_CLOSE_HOURS

\* what the caller of cleanup_old_tickets does with the number returned:
\* auto_ticket_cleanup and auto_close_tickets
SweepReturn(p, cleaned) ==
    IF cleaned = 0 THEN stats
    ELSE IF p = "loop"
         THEN [stats EXCEPT !.automated_actions = @ + cleaned]
         ELSE [stats EXCEPT !.tickets_auto_closed = @ + cleaned]

\* the loop of cleanup_old_tickets over the rest of its snapshot, up to the
\* next suspension
SweepFrom(p, snap, cleaned, chs) ==
    LET i == FirstDue(snap, chs, 1) IN
    IF i = 0
    THEN [proc |-> IdleProc, td |-> ticket_data, stats |-> SweepReturn(p, cleaned)]
    ELSE LET e == CloseEntry(p, snap[i].id,
                             [IdleProc EXCEPT
                                 !.chan = ticket_data[snap[i].ref].channel_id,
                                 !.snap = SubSeq(snap, i + 1, Len(snap)),
                                 !.cleaned = cleaned],
                             chs)
         IN  [proc |-> e.proc, td |-> e.td, stats |-> stats]

\* an iteration of the periodic task begins
SweepStart(p) ==
    LET r == SweepFrom(p, active_tickets, 0, channels) IN
    /\ procs[p].pc = "idle"
    /\ p = "auto" => check_inactive_tickets
    /\ r.proc # IdleProc
    /\ procs' = [procs EXCEPT ![p] = r.proc]
    /\ ticket_data' = r.td
    /\ stats' = r.stats
    /\ UNCHANGED <<rvars, returned, pvars, submitted, modals, lvars, now, ticket_counter, active_tickets, channels, db_tickets,
                   views, restarts, posted, h_dms, h_incs, h_closed_ok>>

\* channel.delete after close_ticket returned, then the rest of the snapshot
DeleteStep(p) ==
    LET me == procs[p]
        chs == [channels EXCEPT ![me.chan].exists = FALSE]
        r == SweepFrom(p, me.snap, me.cleaned + 1, chs)
    IN  /\ me.pc = "delete"
        /\ channels' = chs
        /\ procs' = [procs EXCEPT ![p] = r.proc]
        /\ stats' = r.stats
        /\ UNCHANGED <<rvars, returned, pvars, submitted, modals, lvars, now, ticket_counter, active_tickets, db_tickets,
                       views, restarts, posted, h_dms, h_incs, h_closed_ok>>
        /\ ticket_data' = Collect(r.td, active_tickets', procs')

Next ==
    \/ Tick
    \/ \E u \in Requesters : SubmitTicket(u, Support)
    \/ \E c \in DOMAIN channels, a \in Members \cup {BotUser} : PostInTicketChannel(c, a)
    \/ \E n \in OtherChannels, a \in Members : PostElsewhere(n, a)
    \/ \E c \in DOMAIN views, u \in Members : AssignTicket(c, u)
    \/ Restart
    \/ \E c \in DOMAIN views, u \in Members : ClickClose(c, u)
    \/ SubmitClose
    \/ FollowupStep
    \/ SleepStep
    \/ \E p \in Sweepers : SweepStart(p)
    \/ \E p \in Sweepers : DeleteStep(p)
    \/ \E p \in Procs, ok \in BOOLEAN : HistoryStep(p, ok)
    \/ \E p \in Procs, o \in {"ok", "nofile", "forbidden", "error"} : DmStep(p, o)
    \/ \E p \in Procs : LogsStep(p)
    \/ \E p \in Procs, dbOk \in BOOLEAN : DbStep(p, dbOk)

Spec == Init /\ [][Next]_vars

(***************************************************************************)
(* Tickets created from the modal with different category texts            *)
(***************************************************************************)
CategoryTexts ==
    {Support,
     <<"s", "h", "o", "p">>,
     <<"B", "U", "G", " ", "R", "E", "P", "O", "R", "T">>,
     <<"g", "a", "n", "g">>,
     <<"r", "e", "p", "o", "r", "t">>,
     <<"o">>,
     <<"x", "y", "z">>}

SubmitNext ==
    \/ \E u \in Requesters, value \in CategoryTexts : SubmitTicket(u, value)
    \/ \E c \in DOMAIN channels, a \in Members \cup {BotUser} : PostInTicketChannel(c, a)
    \/ Tick

SubmitSpec == Init /\ [][SubmitNext]_vars

\* the text is one of the six category names, in any case
IsCategoryName(value) ==
    \E k \in 1..Len(valid_categories) :
        StrLower(valid_categories[k]) = StrLower(value)

\* the category names that the text contains or is contained in, in any case
CloseNames(value) ==
    {k \in 1..Len(valid_categories) :
        \/ Contains(StrLower(value), StrLower(valid_categories[k]))
        \/ Contains(StrLower(valid_categories[k]), StrLower(value))}

MaxCreated == 4
MaxModals == 2
MAX_OPEN_TICKETS_PER_USER == 3

\* user_tickets of create_ticket_button: the entries of the active map that
\* belong to the user and are open
user_tickets(user) ==
    {i \in 1..Len(active_tickets) :
        /\ ticket_data[active_tickets[i].ref].user_id = user
        /\ ticket_data[active_tickets[i].ref].status = "open"}

\* TicketCreationView.create_ticket_button: the modal is shown unless the
\* user has max_tickets open tickets
ClickCreate(user) ==
    /\ modals[user] < MaxModals
    /\ Cardinality(user_tickets(user)) < MAX_OPEN_TICKETS_PER_USER
    /\ modals' = [modals EXCEPT ![user] = @ + 1]
    /\ UNCHANGED <<rvars, returned, pvars, submitted, lvars, now, ticket_counter,
                   active_tickets, ticket_data, channels, db_tickets, stats, procs,
                   views, restarts, posted, h_dms, h_incs, h_closed_ok>>

\* the calls of create_ticket that can raise: create_text_channel ("channel"),
\* the first send into the new channel ("send"); "ok": none raises
CreateOutcomes == {"ok", "channel", "send"}

\* TicketCreationModal.on_submit with AdvancedTicketSystem.create_ticket
SubmitModal(user, value, outcome) ==
    LET chan == Cardinality(DOMAIN channels) + 1
        tid == TicketId(ticket_counter + 1)
        td == NewTicket(tid, user, validated_category(value), chan, now)
    IN  /\ modals[user] > 0
        /\ chan <= MaxCreated
        /\ ticket_counter < MaxCreated
        /\ modals' = [modals EXCEPT ![user] = @ - 1]
        /\ ticket_counter' = ticket_counter + 1
        /\ IF outcome = "channel"
           THEN UNCHANGED <<channels, ticket_data, active_tickets, submitted>>
           ELSE /\ channels' =
                     Put(channels, chan,
                         [name |-> ChannelName(tid, user), exists |-> TRUE,
                          msgs |-> IF outcome = "ok"
                                   THEN <<Message(1, BotUser), Message(2, BotUser)>>
                                   ELSE <<>>])
                /\ ticket_data' = Put(ticket_data, chan, td)
                /\ active_tickets' = DictSet(active_tickets, tid, chan)
                /\ submitted' = Put(submitted, chan, value)
        /\ IF outcome = "ok"
           THEN /\ views' = Put(views, chan, tid)
                /\ db_tickets' = db_create_ticket(db_tickets, td)
                /\ stats' = [stats EXCEPT !.tickets_created = @ + 1]
                /\ returned' = [op |-> "create_ticket", success |-> TRUE,
                                ticket_id |-> tid]
           ELSE /\ returned' = [op |-> "create_ticket", success |-> FALSE]
                /\ UNCHANGED <<views, db_tickets, stats>>
        /\ UNCHANGED <<rvars, pvars, lvars, now, procs, restarts, posted,
                       h_dms, h_incs, h_closed_ok>>

CreateNext ==
    \/ \E u \in Members : ClickCreate(u)
    \/ \E u \in Members, o \in CreateOutcomes : SubmitModal(u, Support, o)
    \/ Restart

CreateSpec == Init /\ [][CreateNext]_vars

\* the step is a create_ticket call
CreateCall ==
    /\ ticket_counter' = ticket_counter + 1
    /\ returned'.op = "create_ticket"

\* C23: every ticket created by create_ticket gets a ticket_id different
\* from the id of every other ticket in the active map and in the store,
\* also after a restart that reloaded open tickets: no create overwrites an
\* entry of the active map.
C23_TicketIdsAreNew ==
    [][(CreateCall /\ returned'.success) =>
          /\ returned'.ticket_id \notin Keys(active_tickets)
          /\ returned'.ticket_id \notin DOMAIN db_tickets]_vars

\* C24: a user never has more than MAX_OPEN_TICKETS_PER_USER open tickets at
\* the same time, under any interleaving of the user's clicks on "Create
\* Support Ticket" and submissions of the ticket creation modal.
C24_OpenTicketsWithinLimit ==
    \A u \in Members : Cardinality(user_tickets(u)) <= MAX_OPEN_TICKETS_PER_USER

\* C25: when create_ticket reports failure, no ticket is left behind: the
\* active map is as before the call and tickets_created is not incremented.
C25_FailedCreateLeavesNothing ==
    [][(CreateCall /\ ~returned'.success) =>
          /\ active_tickets' = active_tickets
          /\ stats'.tickets_created = stats.tickets_created]_vars

(***************************************************************************)
(* The periodic tasks and the shutdown of the bot                          *)
(***************************************************************************)
MaxRuleObjs == 2
MaxRuns == 1
MaxTasks == 3

\* names of automation rules of setup_default_rules
RuleNames == {"ticket_auto_close", "data_cleanup"}

\* the variables that the tasks and the shutdown do not touch
other_vars ==
    <<now, ticket_counter, active_tickets, ticket_data, channels, db_tickets,
      stats, procs, views, restarts, posted, h_dms, h_incs, h_closed_ok,
      submitted, modals, rvars, returned, pvars>>

\* asyncio.create_task(self.run_automation_rule(rule))
NewTask(rule) == [rule |-> rule, cancelled |-> FALSE]

\* AutomationEngine.add_automation_rule
AddAutomationRule(rule_name, enabled) ==
    LET rule == Len(rule_objs) + 1 IN
    /\ shutdown = "up"
    /\ Len(rule_objs) < MaxRuleObjs
    /\ Len(tasks) < MaxTasks
    /\ rule_objs' = Append(rule_objs,
                           [name |-> rule_name, enabled |-> enabled, run_count |-> 0])
    /\ automation_rules' = DictSet(automation_rules, rule_name, rule)
    /\ IF enabled
       THEN /\ tasks' = Append(tasks, NewTask(rule))
            /\ scheduled_tasks' = DictSet(scheduled_tasks, rule_name, Len(tasks) + 1)
       ELSE UNCHANGED <<tasks, scheduled_tasks>>
    /\ UNCHANGED <<other_vars, shutdown, loops>>

\* the rules, in the order of automation_rules, that start_automation_tasks
\* makes a task for
RECURSIVE ToStart(_)
ToStart(items) ==
    IF items = <<>> THEN <<>>
    ELSE LET name == Head(items).id
             rule == Head(items).ref
         IN  (IF rule_objs[rule].enabled /\ name \notin Keys(scheduled_tasks)
              THEN <<Head(items)>> ELSE <<>>) \o ToStart(Tail(items))

\* AutomationEngine.start_automation_tasks
StartAutomationTasks ==
    LET start == ToStart(automation_rules) IN
    /\ shutdown = "up"
    /\ start # <<>>
    /\ Len(tasks) + Len(start) <= MaxTasks
    /\ tasks' = tasks \o [i \in 1..Len(start) |-> NewTask(start[i].ref)]
    /\ scheduled_tasks' =
           scheduled_tasks \o [i \in 1..Len(start) |-> [id |-> start[i].id, ref |-> Len(tasks) + i]]
    /\ UNCHANGED <<other_vars, shutdown, loops, rule_objs, automation_rules>>

\* AutomationEngine.stop_automation_tasks
StopAutomationTasks ==
    /\ shutdown = "up"
    /\ scheduled_tasks # <<>>
    /\ tasks' = [t \in 1..Len(tasks) |->
                  IF \E i \in 1..Len(scheduled_tasks) : scheduled_tasks[i].ref = t
                  THEN [tasks[t] EXCEPT !.cancelled = TRUE]
                  ELSE tasks[t]]
    /\ scheduled_tasks' = <<>>
    /\ UNCHANGED <<other_vars, shutdown, loops, rule_objs, automation_rules>>

\* AutomationEngine.enable_rule (the configuration file is not modelled)
EnableRule(rule_name) ==
    /\ shutdown = "up"
    /\ rule_name \in Keys(automation_rules)
    /\ LET rule == Lookup(automation_rules, rule_name) IN
       /\ rule_objs' = [rule_objs EXCEPT ![rule].enabled = TRUE]
       /\ IF rule_name \notin Keys(scheduled_tasks)
          THEN /\ Len(tasks) < MaxTasks
               /\ tasks' = Append(tasks, NewTask(rule))
               /\ scheduled_tasks' = DictSet(scheduled_tasks, rule_name, Len(tasks) + 1)
          ELSE UNCHANGED <<tasks, scheduled_tasks>>
    /\ UNCHANGED <<other_vars, shutdown, loops, automation_rules>>

\* AutomationEngine.disable_rule
DisableRule(rule_name) ==
    /\ shutdown = "up"
    /\ rule_name \in Keys(automation_rules)
    /\ LET rule == Lookup(automation_rules, rule_name) IN
       /\ rule_objs' = [rule_objs EXCEPT ![rule].enabled = FALSE]
       /\ IF rule_name \in Keys(scheduled_tasks)
          THEN /\ tasks' = [tasks EXCEPT
                               ![Lookup(scheduled_tasks, rule_name)].cancelled = TRUE]
               /\ scheduled_tasks' = DictDel(scheduled_tasks, rule_name)
          ELSE UNCHANGED <<tasks, scheduled_tasks>>
    /\ UNCHANGED <<other_vars, shutdown, loops, automation_rules>>

\* PakistanRPCommunityBot.start_background_tasks
StartBackgroundTasks ==
    /\ shutdown = "up"
    /\ \E l \in LoopNames : ~loops[l].running
    /\ loops' = [l \in LoopNames |-> [loops[l] EXCEPT !.running = TRUE]]
    /\ UNCHANGED <<other_vars, shutdown, rule_objs, automation_rules, tasks,
                   scheduled_tasks>>

\* one iteration of a tasks.loop task
LoopIteration(l) ==
    /\ shutdown # "exited"
    /\ loops[l].running
    /\ loops[l].current_loop < MaxRuns
    /\ loops' = [loops EXCEPT ![l].current_loop = @ + 1]
    /\ UNCHANGED <<other_vars, shutdown, rule_objs, automation_rules, tasks,
                   scheduled_tasks>>

\* one iteration of the while loop of AutomationEngine.run_automation_rule
RuleIteration(t) ==
    /\ shutdown # "exited"
    /\ t <= Len(tasks)
    /\ ~tasks[t].cancelled
    /\ rule_objs[tasks[t].rule].enabled
    /\ rule_objs[tasks[t].rule].run_count < MaxRuns
    /\ rule_objs' = [rule_objs EXCEPT ![tasks[t].rule].run_count = @ + 1]
    /\ UNCHANGED <<other_vars, shutdown, loops, automation_rules, tasks,
                   scheduled_tasks>>

\* PakistanRPCommunityBot.close, up to its first await: the three loops are
\* cancelled
CloseBegin ==
    /\ shutdown = "up"
    /\ shutdown' = "closing"
    /\ loops' = [l \in LoopNames |-> [loops[l] EXCEPT !.running = FALSE]]
    /\ UNCHANGED <<other_vars, rule_objs, automation_rules, tasks, scheduled_tasks>>

\* PakistanRPCommunityBot.close returns: the store and the connection are
\* closed
CloseEnd ==
    /\ shutdown = "closing"
    /\ shutdown' = "closed"
    /\ UNCHANGED <<other_vars, loops, rule_objs, automation_rules, tasks,
                   scheduled_tasks>>

\* asyncio.run(main()) ends: the event loop cancels the tasks that are left
\* and stops
Exit ==
    /\ shutdown = "closed"
    /\ shutdown' = "exited"
    /\ tasks' = [t \in 1..Len(tasks) |-> [tasks[t] EXCEPT !.cancelled = TRUE]]
    /\ UNCHANGED <<other_vars, loops, rule_objs, automation_rules, scheduled_tasks>>

ShutdownNext ==
    \/ \E n \in RuleNames, e \in BOOLEAN : AddAutomationRule(n, e)
    \/ StartAutomationTasks
    \/ StopAutomationTasks
    \/ StartBackgroundTasks
    \/ \E l \in LoopNames : LoopIteration(l)
    \/ \E t \in 1..MaxTasks : RuleIteration(t)
    \/ CloseBegin
    \/ CloseEnd
    \/ Exit

ShutdownSpec == Init /\ [][ShutdownNext]_vars

AutomationNext ==
    \/ \E n \in RuleNames, e \in BOOLEAN : AddAutomationRule(n, e)
    \/ StartAutomationTasks
    \/ StopAutomationTasks
    \/ \E n \in RuleNames : EnableRule(n)
    \/ \E n \in RuleNames : DisableRule(n)
    \/ \E t \in 1..MaxTasks : RuleIteration(t)

AutomationSpec == Init /\ [][AutomationNext]_vars

\* the loop tasks of the rule name that are running: made for a rule of that
\* name, not cancelled, and the `while rule['enabled']` of their rule holds
RunningTasks(rule_name) ==
    {t \in 1..Len(tasks) :
        /\ rule_objs[tasks[t].rule].name = rule_name
        /\ ~tasks[t].cancelled
        /\ rule_objs[tasks[t].rule].enabled}

\* C30: for each automation rule name at most one periodic loop task is
\* running at any time, after any sequence of add_automation_rule,
\* start_automation_tasks, enable_rule, disable_rule and stop_automation_tasks.
C30_OneTaskPerRule ==
    \A n \in RuleNames : Cardinality(RunningTasks(n)) <= 1

\* the iterations that the periodic tasks have run
Iterations ==
    <<[l \in LoopNames |-> loops[l].current_loop],
      [r \in 1..Len(rule_objs) |-> rule_objs[r].run_count]>>

\* C20: after the bot's shutdown (close) has run, no periodic task runs
\* another iteration: the ticket-cleanup, statistics and maintenance loops
\* and every rule loop of the automation engine are cancelled.
C20_NoIterationAfterClose ==
    [][shutdown = "closed" =>
          /\ \A l \in LoopNames : ~loops[l].running
          /\ \A t \in 1..Len(tasks) : tasks[t].cancelled
          /\ Iterations' = Iterations]_vars

(***************************************************************************)
(* The sweep alone, with the fairness of its scheduling: the loops are     *)
(* started again every period, and a call that is awaited returns.  No     *)
(* staff member acts, no message arrives and the process is not restarted. *)
(***************************************************************************)
LiveNext ==
    \/ Tick
    \/ \E u \in Requesters : SubmitTicket(u, Support)
    \/ \E p \in Sweepers : SweepStart(p)
    \/ \E p \in Sweepers : DeleteStep(p)
    \/ \E p \in Sweepers, ok \in BOOLEAN : HistoryStep(p, ok)
    \/ \E p \in Sweepers, o \in {"ok", "nofile", "forbidden", "error"} : DmStep(p, o)
    \/ \E p \in Sweepers : LogsStep(p)
    \/ \E p \in Sweepers, dbOk \in BOOLEAN : DbStep(p, dbOk)

Fairness ==
    /\ WF_vars(Tick)
    /\ \A p \in Sweepers :
           /\ WF_vars(SweepStart(p))
           /\ WF_vars(DeleteStep(p))
           /\ WF_vars(\E ok \in BOOLEAN : HistoryStep(p, ok))
           /\ WF_vars(\E o \in {"ok", "nofile", "forbidden", "error"} : DmStep(p, o))
           /\ WF_vars(LogsStep(p))
           /\ WF_vars(\E dbOk \in BOOLEAN : DbStep(p, dbOk))
           /\ SF_vars(HistoryStep(p, TRUE))
           /\ SF_vars(DmStep(p, "ok"))
           /\ SF_vars(DbStep(p, TRUE))

LiveSpec == Init /\ [][LiveNext]_vars /\ Fairness

(***************************************************************************)
(* Properties of the ticket lifecycle.                                     *)
(***************************************************************************)
\* the ticket object r is in the active map
InActiveMap(r) == \E i \in 1..Len(active_tickets) : active_tickets[i].ref = r

\* p's call of close_ticket, which got past its guard, returns in this step
CloseReturns(p) ==
    procs[p].entered /\ ~procs'[p].entered /\ restarts' = restarts

\* C1: when the closes of a sweep and of a staff member, or of the two sweeps,
\* interleave on one ticket, the ticket is closed exactly once: its transcript
\* is delivered once and tickets_resolved is incremented once for it.
C1_ClosedExactlyOnce ==
    restarts = 0 =>
        \A r \in DOMAIN h_incs : h_incs[r] <= 1 /\ h_dms[r] <= 1

\* the ticket r has reached CLOSED: its status was set to closed, or a
\* close_ticket call for it returned True
Closed(r) ==
    \/ r \in h_closed_ok
    \/ r \in DOMAIN ticket_data /\ ticket_data[r].status = "closed"

\* C3: CLOSED is terminal: under create, close, sweep and restart no step takes
\* a ticket that has reached CLOSED back to status open.
C3_ClosedIsTerminal ==
    [][\A r \in DOMAIN channels :
          Closed(r) => ~(r \in DOMAIN ticket_data' /\ ticket_data'[r].status = "open")]_vars

\* C4: whatever fails inside close_ticket (history fetch, file write, DM, log
\* channels, store update), the call ends with the ticket removed from the
\* active map and reports success.
C4_CloseNeverBlocked ==
    [][\A p \in Procs :
          CloseReturns(p) =>
              /\ procs[p].tid \notin Keys(active_tickets')
              /\ procs'[p].result]_vars

\* C5: the sweep closes a ticket only when now - last_activity is greater
\* than TICKET_AUTO_CLOSE_HOURS.
C5_SweepClosesOnlyInactive ==
    [][\A p \in Sweepers :
          (~procs[p].entered /\ procs'[p].entered) =>
              now - ticket_data[procs'[p].ref].last_activity
                  > TICKET_AUTO_CLOSE_HOURS]_vars

\* a message arrives in the channel c in this step
Arrives(c) == Len(channels'[c].msgs) = Len(channels[c].msgs) + 1

\* C6: a non-bot message in the channel that create_ticket made for an open
\* ticket sets last_activity to the time of the message and puts a staff
\* author into staff_involved; a message of a bot changes neither field.
C6_MessageRecordsActivity ==
    [][\A c \in DOMAIN channels :
          (Arrives(c) /\ InActiveMap(c) /\ ticket_data[c].status = "open") =>
              LET author == channels'[c].msgs[Len(channels'[c].msgs)].author IN
              IF author = BotUser
              THEN /\ ticket_data'[c].last_activity = ticket_data[c].last_activity
                   /\ ticket_data'[c].staff_involved = ticket_data[c].staff_involved
              ELSE /\ ticket_data'[c].last_activity = now
                   /\ is_staff(author) =>
                          InList(author, ticket_data'[c].staff_involved)]_vars

\* C7: the transcript of a close holds every message that was in the channel
\* when the ticket was closed, each once and in the order of posting.
C7_TranscriptComplete ==
    [][\A p \in Procs :
          (CloseReturns(p) /\ procs'[p].result) =>
              LET posts == procs[p].at_close
                  lines == procs[p].transcript
              IN  /\ Len(lines) >= Len(posts)
                  /\ \A i \in 1..Len(posts) :
                         lines[i] = <<posts[i].author, posts[i].n>>
                  /\ \A i, j \in 1..Len(lines) : i # j => lines[i] # lines[j]]_vars

\* the open ticket r is overdue
Overdue(r) ==
    /\ InActiveMap(r)
    /\ ticket_data[r].status = "open"
    /\ now - ticket_data[r].last_activity > TICKET_AUTO_CLOSE_HOURS

\* C8: while the sweep keeps running, every overdue open ticket is eventually
\* closed by it: it does not stay in the active map forever.
C8_OverdueEventuallyClosed ==
    \A r \in 1..MaxTickets : Overdue(r) ~> ~InActiveMap(r)

\* C9: once the status of a ticket is closed, its assigned_staff,
\* last_activity and staff_involved do not change any more, also while
\* close_ticket is suspended.
C9_ClosedIsFrozen ==
    [][\A r \in DOMAIN ticket_data :
          (ticket_data[r].status = "closed" /\ r \in DOMAIN ticket_data'
                                            /\ restarts' = restarts) =>
              /\ ticket_data'[r].assigned_staff = ticket_data[r].assigned_staff
              /\ ticket_data'[r].last_activity = ticket_data[r].last_activity
              /\ ticket_data'[r].staff_involved = ticket_data[r].staff_involved]_vars

\* the coroutine p is inside close_ticket, at one of its suspensions
InCloseTicket(p) == procs[p].pc \in {"history", "dm", "logs", "db"}

\* C22: whenever no close_ticket call is in progress, every entry of the
\* active-ticket map has status 'open'; a ticket whose status was set to
\* closed is never left in the map, also when close_ticket returns False.
C22_ActiveEntriesAreOpen ==
    (\A p \in Procs : ~InCloseTicket(p)) =>
        \A i \in 1..Len(active_tickets) :
            ticket_data[active_tickets[i].ref].status = "open"

\* the sweep p has come back from a close_ticket call and goes on: to
\* channel.delete, `cleaned += 1` and the rest of its snapshot
AfterClose(p) ==
    /\ procs[p].pc = "delete"
    /\ procs'[p] # procs[p]
    /\ restarts' = restarts

\* what the step adds to the number that cleanup_old_tickets returns: to
\* `cleaned` while the sweep goes on, to the statistics of its caller when it
\* returns
Counted(p) ==
    (procs'[p].cleaned - procs[p].cleaned)
        + (stats'.automated_actions - stats.automated_actions)
        + (stats'.tickets_auto_closed - stats.tickets_auto_closed)

\* C29: the number returned by cleanup_old_tickets, which is added to
\* tickets_auto_closed and automated_actions, is the number of tickets that
\* the sweep closed: a close_ticket call counts one when it returned True
\* and nothing when it returned False.
C29_CountsTheClosed ==
    [][\A p \in Sweepers :
          AfterClose(p) => Counted(p) = IF procs[p].result THEN 1 ELSE 0]_vars

(***************************************************************************)
(* The rule index.  A text that the code searches for substrings is the    *)
(* sequence of its characters.                                             *)
(***************************************************************************)
MaxRules == 11
MaxSearches == 1
MaxCalls == 5
DefaultLimit == 10

\* s.startswith(prefix)
StartsWith(s, prefix) ==
    Len(s) >= Len(prefix) /\ SubSeq(s, 1, Len(prefix)) = prefix

Digits == <<"0", "1", "2", "3", "4", "5", "6", "7", "8", "9">>

\* f"{n:03d}"
Fmt03d(n) ==
    <<Digits[((n \div 100) % 10) + 1], Digits[((n \div 10) % 10) + 1], Digits[(n % 10) + 1]>>

IsDigit(c) == \E d \in 1..10 : Digits[d] = c
DigitValue(c) == (CHOOSE d \in 1..10 : Digits[d] = c) - 1

\* int(s); -1 where int raises ValueError
RECURSIVE ParseInt(_)
ParseInt(s) ==
    IF s = <<>> THEN -1
    ELSE IF ~IsDigit(s[Len(s)]) THEN -1
    ELSE IF Len(s) = 1 THEN DigitValue(s[1])
    ELSE LET high == ParseInt(SubSeq(s, 1, Len(s) - 1)) IN
         IF high = -1 THEN -1 ELSE 10 * high + DigitValue(s[Len(s)])

Min(a, b) == IF a <= b THEN a ELSE b

NoCategory == ""
EmptyQuery == <<>>
Toxic == <<"t", "o", "x", "i", "c">>
Behavior == <<"B", "e", "h", "a", "v", "i", "o", "r">>
Racing == <<"R", "a", "c", "i", "n", "g">>

\* default_categories: the subcategories of the categories that occur
categories ==
    [c \in {"General Rules", "Vehicle Rules"} |->
        IF c = "General Rules" THEN {Behavior} ELSE {Racing}]

\* RuleManagementSystem.get_category_prefix
get_category_prefix(category) ==
    CASE category = "General Rules" -> <<"G", "R">>
      [] category = "Roleplay Guidelines" -> <<"R", "P">>
      [] category = "Gang Regulations" -> <<"G", "G">>
      [] category = "Vehicle Rules" -> <<"V", "H">>
      [] category = "Property Guidelines" -> <<"P", "R">>
      [] category = "Economic System" -> <<"E", "C">>
      [] category = "Staff Protocols" -> <<"S", "T">>
      [] category = "Event Rules" -> <<"E", "V">>
      [] OTHER -> <<"R", "U">>

Priorities == {"low", "medium", "high", "critical"}
Rungs == <<"first_offense", "second_offense", "third_offense", "severe">>

\* the ladder add_rule gives a rule created without punishments
DefaultLadder ==
    [r \in {"first_offense", "second_offense", "third_offense", "severe"} |->
        CASE r = "first_offense" ->
                 [type |-> "warning", duration |-> "None", fine |-> 5000,
                  details |-> "Warning + $5,000 fine"]
          [] r = "second_offense" ->
                 [type |-> "mute", duration |-> "60", fine |-> 10000,
                  details |-> "1 hour mute + $10,000 fine"]
          [] r = "third_offense" ->
                 [type |-> "temp_ban", duration |-> "1440", fine |-> 25000,
                  details |-> "24 hour ban + $25,000 fine"]
          [] OTHER ->
                 [type |-> "perm_ban", duration |-> "None", fine |-> 0,
                  details |-> "Permanent ban"]]

\* priority.lower() on the priorities that occur
priority_lower(priority) == IF priority = "HIGH" THEN "high" ELSE priority

\* rule_data of add_rule
RuleData(category, subcategory, title, content, keywords, priority, punishments) ==
    [title |-> title, content |-> content, category |-> category,
     subcategory |-> subcategory, keywords |-> keywords,
     priority |-> IF priority_lower(priority) \in Priorities
                  THEN priority_lower(priority) ELSE "medium",
     punishments |-> IF punishments = <<>> THEN DefaultLadder ELSE punishments]

\* the ordered dict rules_database: a sequence of items [id, rule]
RuleIds(db) == {db[i].id : i \in 1..Len(db)}
RuleOf(db, id) == db[CHOOSE i \in 1..Len(db) : db[i].id = id].rule

\* the next rule id of add_rule for a category
NextRuleId(db, category) ==
    LET prefix == get_category_prefix(category)
        nums == {ParseInt(SubSeq(db[i].id, Len(prefix) + 1, Len(db[i].id))) :
                    i \in {j \in 1..Len(db) : StartsWith(db[j].id, prefix)}}
        max_num == IF nums \ {-1} = {} THEN 0
                   ELSE CHOOSE m \in nums : \A k \in nums : k <= m
    IN  prefix \o Fmt03d(max_num + 1)

\* the keyword loop with `if` in place of `elif`: an equal keyword also
\* counts as one that contains the query
RECURSIVE KeywordScoreBoth(_, _)
KeywordScoreBoth(q, keywords) ==
    IF keywords = <<>> THEN 0
    ELSE (IF q = StrLower(Head(keywords)) THEN 80 ELSE 0)
       + (IF Contains(q, StrLower(Head(keywords))) THEN 40 ELSE 0)
       + KeywordScoreBoth(q, Tail(keywords))

\* the score search_rules gives a rule for a non-empty query
RECURSIVE KeywordScore(_, _)
KeywordScore(q, keywords) ==
    IF keywords = <<>> THEN 0
    ELSE (IF q = StrLower(Head(keywords)) THEN 80
          ELSE IF Contains(q, StrLower(Head(keywords))) THEN 40
          ELSE 0) + KeywordScore(q, Tail(keywords))

QueryScore(query, rule_id, rule_data) ==
    LET q == StrLower(query) IN
      (IF Contains(q, StrLower(rule_data.title)) THEN 100 ELSE 0)
    + KeywordScore(q, rule_data.keywords)
    + (IF Contains(q, StrLower(rule_data.content)) THEN 30 ELSE 0)
    + (IF Contains(q, StrLower(rule_data.subcategory)) THEN 20 ELSE 0)
    + (IF Contains(q, StrLower(rule_id)) THEN 60 ELSE 0)

\* the score of a rule when there is no query
NoQueryScore == 10

Score(query, rule_id, rule_data) ==
    IF query # EmptyQuery THEN QueryScore(query, rule_id, rule_data) ELSE NoQueryScore

\* the category filter of search_rules left out
SkippedNever(category, rule_data) == FALSE

\* the category filter of search_rules: the rule is skipped
Skipped(category, rule_data) ==
    category # NoCategory /\ rule_data.category # category

\* the rule is appended to results
Hit(query, category, item) ==
    ~Skipped(category, item.rule) /\ Score(query, item.id, item.rule) > 0

\* rule_data['rule_id'] = rule_id; rule_data['search_score'] = score
Stamp(query, item) ==
    Put(Put(item.rule, "rule_id", item.id),
        "search_score", Score(query, item.id, item.rule))

\* a sort key that leaves the priority weight out
sort_key_score_only(rule) == rule.search_score

\* sort_key of search_rules
sort_key(rule) ==
    rule.search_score
        + (CASE rule.priority = "critical" -> 1000
             [] rule.priority = "high" -> 500
             [] rule.priority = "medium" -> 100
             [] rule.priority = "low" -> 50
             [] OTHER -> 100)

\* a descending sort that is not stable: equal keys come out reversed
RECURSIVE SortDescTiesReversed(_)
SortDescTiesReversed(list) ==
    IF list = <<>> THEN <<>>
    ELSE LET rest == SortDescTiesReversed(Tail(list))
             x == Head(list)
             before(e) == sort_key(e) >= sort_key(x)
             after(e) == sort_key(e) < sort_key(x)
         IN  SelectSeq(rest, before) \o <<x>> \o SelectSeq(rest, after)

\* list.sort(key=sort_key, reverse=True): stable, equal keys keep their order
RECURSIVE SortDesc(_)
SortDesc(list) ==
    IF list = <<>> THEN <<>>
    ELSE LET rest == SortDesc(Tail(list))
             x == Head(list)
             before(e) == sort_key(e) > sort_key(x)
             after(e) == sort_key(e) <= sort_key(x)
         IN  SelectSeq(rest, before) \o <<x>> \o SelectSeq(rest, after)

\* results[:limit]
Slice(list, limit) == SubSeq(list, 1, Min(limit, Len(list)))

\* search_rules without its first test: a search with no query and no
\* category goes through the collection like any other
search_rules_unguarded(db, query, category, limit) ==
    LET hit(item) == Hit(query, category, item)
        hits == SelectSeq(db, hit)
        results == [i \in 1..Len(hits) |-> Stamp(query, hits[i])]
    IN  [results |-> Slice(SortDesc(results), limit),
         db |-> [i \in 1..Len(db) |->
                    IF hit(db[i])
                    THEN [id |-> db[i].id, rule |-> Stamp(query, db[i])]
                    ELSE db[i]],
         counted |-> TRUE]

\* RuleManagementSystem.search_rules: the list returned and the rule collection
\* after the call
search_rules(db, query, category, limit) ==
    IF query = EmptyQuery /\ category = NoCategory
    THEN [results |-> <<>>, db |-> db, counted |-> FALSE]
    ELSE LET hit(item) == Hit(query, category, item)
             hits == SelectSeq(db, hit)
             results == [i \in 1..Len(hits) |-> Stamp(query, hits[i])]
         IN  [results |-> Slice(SortDesc(results), limit),
              db |-> [i \in 1..Len(db) |->
                         IF hit(db[i])
                         THEN [id |-> db[i].id, rule |-> Stamp(query, db[i])]
                         ELSE db[i]],
              counted |-> TRUE]

(***************************************************************************)
(* add_rule and the rule collections the searches run on                   *)
(***************************************************************************)
NoLadder == <<>>

\* arguments of add_rule
GeneralHigh ==
    [category |-> "General Rules", subcategory |-> Behavior,
     title |-> <<"R", "e", "s", "p", "e", "c", "t">>,
     content |-> <<"N", "o", " ", "t", "o", "x", "i", "c", "i", "t", "y">>,
     keywords |-> <<Toxic, <<"r", "e", "s", "p", "e", "c", "t">>>>,
     priority |-> "high", punishments |-> NoLadder]

GeneralLow ==
    [category |-> "General Rules", subcategory |-> Behavior,
     title |-> <<"T", "o", "x", "i", "c", " ", "n", "a", "m", "e", "s">>,
     content |-> <<"N", "o", " ", "i", "n", "s", "u", "l", "t", "s">>,
     keywords |-> <<<<"n", "a", "m", "e">>>>,
     priority |-> "low", punishments |-> NoLadder]

VehicleMedium ==
    [category |-> "Vehicle Rules", subcategory |-> Racing,
     title |-> <<"T", "r", "a", "f", "f", "i", "c">>,
     content |-> <<"N", "o", " ", "r", "a", "c", "i", "n", "g">>,
     keywords |-> <<<<"t", "r", "a", "f", "f", "i", "c">>>>,
     priority |-> "medium", punishments |-> NoLadder]

\* a rule added with a ladder of its own, which lacks two rungs
VehiclePartial ==
    [VehicleMedium EXCEPT !.punishments =
        [r \in {"second_offense", "severe"} |-> DefaultLadder[r]]]

\* RuleManagementSystem.save_rules_database: the file after the call
save_rules_database(db, file, saveOk) == IF saveOk THEN db ELSE file

\* add_rule without the removal of the rule after a failed save
add_rule_kept(db, file, inp, saveOk) ==
    LET rule_id == NextRuleId(db, inp.category)
        rule_data == RuleData(inp.category, inp.subcategory, inp.title, inp.content,
                              inp.keywords, inp.priority, inp.punishments)
    IN  IF inp.title = <<>> \/ inp.content = <<>>
        THEN [db |-> db, file |-> file, ok |-> FALSE,
              value |-> "Title and content are required"]
        ELSE IF inp.category \notin DOMAIN categories
        THEN [db |-> db, file |-> file, ok |-> FALSE, value |-> "Invalid category"]
        ELSE IF inp.subcategory \notin categories[inp.category]
        THEN [db |-> db, file |-> file, ok |-> FALSE, value |-> "Invalid subcategory"]
        ELSE LET keep(e) == e.id # rule_id
                 added == Append(SelectSeq(db, keep), [id |-> rule_id, rule |-> rule_data])
             IN  IF saveOk
                 THEN [db |-> added, file |-> save_rules_database(added, file, saveOk),
                       ok |-> TRUE, value |-> rule_id]
                 ELSE [db |-> added, file |-> file, ok |-> FALSE,
                       value |-> "Failed to save rule to database"]

\* RuleManagementSystem.add_rule: the collection, the file and the value returned
add_rule(db, file, inp, saveOk) ==
    LET rule_id == NextRuleId(db, inp.category)
        rule_data == RuleData(inp.category, inp.subcategory, inp.title, inp.content,
                              inp.keywords, inp.priority, inp.punishments)
    IN  IF inp.title = <<>> \/ inp.content = <<>>
        THEN [db |-> db, file |-> file, ok |-> FALSE,
              value |-> "Title and content are required"]
        ELSE IF inp.category \notin DOMAIN categories
        THEN [db |-> db, file |-> file, ok |-> FALSE, value |-> "Invalid category"]
        ELSE IF inp.subcategory \notin categories[inp.category]
        THEN [db |-> db, file |-> file, ok |-> FALSE, value |-> "Invalid subcategory"]
        ELSE LET keep(e) == e.id # rule_id
                 added == Append(SelectSeq(db, keep), [id |-> rule_id, rule |-> rule_data])
             IN  IF saveOk
                 THEN [db |-> added, file |-> save_rules_database(added, file, saveOk),
                       ok |-> TRUE, value |-> rule_id]
                 ELSE [db |-> SelectSeq(added, keep), file |-> file, ok |-> FALSE,
                       value |-> "Failed to save rule to database"]

\* the collection after n successful add_rule calls whose arguments repeat
\* the pattern f
RECURSIVE AddedRules(_, _)
AddedRules(n, f) ==
    IF n = 0 THEN <<>>
    ELSE LET db == AddedRules(n - 1, f) IN
         add_rule(db, db, f[((n - 1) % Len(f)) + 1], TRUE).db

RuleInputs == {GeneralHigh, GeneralLow, VehicleMedium}
Queries == {EmptyQuery, Toxic}
CategoryInputs == {NoCategory, "General Rules", "Vehicle Rules", "Event Rules"}

SearchInit ==
    /\ TicketInit
    /\ \E n \in 0..MaxRules, f \in [1..3 -> RuleInputs] :
           /\ rules_database = AddedRules(n, f)
           /\ rules_file = AddedRules(n, f)
    /\ rules_accessed = 0
    /\ returned = [op |-> "none"]
    /\ violations = <<>>
    /\ h_calls = <<>>
    /\ h_fault = <<>>
    /\ h_last = <<>>

\* a search from the rule search modal or a caller that leaves the limit at
\* its default
SearchRules(query, category) ==
    LET r == search_rules(rules_database, query, category, DefaultLimit) IN
    /\ rules_accessed < MaxSearches
    /\ rules_database' = r.db
    /\ rules_accessed' = IF r.counted THEN rules_accessed + 1 ELSE rules_accessed
    /\ returned' = [op |-> "search_rules", query |-> query, category |-> category,
                    value |-> r.results]
    /\ UNCHANGED <<tvars, rules_file, pvars>>

\* the call that returned last is a search for all rules of a category
CategorySearch ==
    /\ returned.op = "search_rules"
    /\ returned.query = EmptyQuery
    /\ returned.category # NoCategory

\* the ids of the rules of category c
InCategory(c) ==
    {rules_database[i].id :
        i \in {j \in 1..Len(rules_database) : rules_database[j].rule.category = c}}

\* the ids of the rules returned
Returned_ids == {returned.value[i].rule_id : i \in 1..Len(returned.value)}

\* the weight of a priority in the ranking
Weight(priority) ==
    CASE priority = "critical" -> 1000
      [] priority = "high" -> 500
      [] priority = "low" -> 50
      [] OTHER -> 100

\* C10, as the spec states it: a search with an empty query and a category
\* returns exactly the rules of the category, whatever their number, each
\* with a score above 0.
C10_ExactlyTheCategory ==
    CategorySearch =>
        /\ Returned_ids = InCategory(returned.category)
        /\ \A i \in 1..Len(returned.value) : returned.value[i].search_score > 0

\* C10, amended: a search with an empty query and a category returns rules of
\* the category only, each once and with score 10: all of them when they are
\* at most `limit` (10), otherwise the `limit` rules that rank highest by
\* priority weight.
C10_CategoryListing ==
    CategorySearch =>
        LET res == returned.value
            inC == InCategory(returned.category)
        IN  /\ Returned_ids \subseteq inC
            /\ Len(res) = Min(Cardinality(inC), DefaultLimit)
            /\ Cardinality(Returned_ids) = Len(res)
            /\ \A i \in 1..Len(res) : res[i].search_score = 10
            /\ \A i \in 1..Len(res) : \A id \in inC \ Returned_ids :
                   Weight(res[i].priority) >= Weight(RuleOf(rules_database, id).priority)

\* a category of more than `limit` rules, with rules of two priorities, was
\* searched
C10_Witness ==
    /\ CategorySearch
    /\ Cardinality(InCategory(returned.category)) > DefaultLimit
    /\ Len(returned.value) = DefaultLimit
    /\ \E i, j \in 1..Len(returned.value) :
           returned.value[i].priority # returned.value[j].priority

\* the place of a rule in the iteration order of the rule collection
PositionOf(rule_id) ==
    CHOOSE i \in 1..Len(rules_database) : rules_database[i].id = rule_id

\* the ranking key of a returned rule: search score plus priority weight
RankingKey(rule) == rule.search_score + Weight(rule.priority)

\* C11: the list search_rules returns is ordered by ranking key (search score
\* plus priority weight), highest first, and rules of equal ranking key
\* appear in the iteration order of the rule collection.
C11_RankedOrder ==
    returned.op = "search_rules" =>
        \A i, j \in 1..Len(returned.value) :
            i < j =>
                \/ RankingKey(returned.value[i]) > RankingKey(returned.value[j])
                \/ /\ RankingKey(returned.value[i]) = RankingKey(returned.value[j])
                   /\ PositionOf(returned.value[i].rule_id)
                          < PositionOf(returned.value[j].rule_id)

\* a search returned rules of equal key next to rules of another key, and put
\* a rule before one that precedes it in the collection
C11_Witness ==
    /\ returned.op = "search_rules"
    /\ \E i, j \in 1..Len(returned.value) :
           /\ i < j
           /\ RankingKey(returned.value[i]) = RankingKey(returned.value[j])
    /\ \E i, j \in 1..Len(returned.value) :
           /\ i < j
           /\ RankingKey(returned.value[i]) > RankingKey(returned.value[j])
           /\ PositionOf(returned.value[i].rule_id)
                  > PositionOf(returned.value[j].rule_id)

\* the call that returned last is a search with no query and no category
EmptySearch ==
    /\ returned.op = "search_rules"
    /\ returned.query = EmptyQuery
    /\ returned.category = NoCategory

\* C21: search_rules with an empty query and no category returns the empty
\* list, whatever rules the collection holds.
C21_EmptySearchReturnsNothing ==
    EmptySearch => returned.value = <<>>

\* a search with no query and no category ran on a collection that holds
\* rules of two categories, and returned the empty list
C21_Witness ==
    /\ EmptySearch
    /\ returned.value = <<>>
    /\ \E i, j \in 1..Len(rules_database) :
           rules_database[i].rule.category # rules_database[j].rule.category

SearchNext == \E q \in Queries, c \in CategoryInputs : SearchRules(q, c)

SearchSpec == SearchInit /\ [][SearchNext]_vars

(***************************************************************************)
(* Searches with a query, on small collections of rules that match it in   *)
(* different fields                                                        *)
(***************************************************************************)
MaxRanked == 2

\* a rule that the query "toxic" matches through one keyword only
KeywordOnlyHigh ==
    [category |-> "General Rules", subcategory |-> Behavior,
     title |-> <<"R", "e", "s", "p", "e", "c", "t">>,
     content |-> <<"B", "e", " ", "k", "i", "n", "d">>,
     keywords |-> <<<<"r", "e", "s", "p", "e", "c", "t">>, Toxic>>,
     priority |-> "high", punishments |-> NoLadder]

\* a rule that the query "toxic" matches through its content only
ContentOnly(priority) ==
    [category |-> "General Rules", subcategory |-> Behavior,
     title |-> <<"B", "a", "n", "t", "e", "r">>,
     content |-> <<"N", "o", " ", "t", "o", "x", "i", "c", "i", "t", "y">>,
     keywords |-> <<<<"b", "a", "n", "t", "e", "r">>>>,
     priority |-> priority, punishments |-> NoLadder]

RankInputs ==
    {GeneralHigh, GeneralLow, VehicleMedium, KeywordOnlyHigh}
        \cup {ContentOnly(p) : p \in Priorities}

RankQueries ==
    {Toxic, <<"T", "o", "x">>, <<"G", "R">>, <<"r", "a", "c">>}

RankCategories == {NoCategory, "General Rules"}

RankInit ==
    /\ TicketInit
    /\ \E n \in 0..MaxRanked : \E f \in [1..n -> RankInputs] :
           /\ rules_database = AddedRules(n, f)
           /\ rules_file = AddedRules(n, f)
    /\ rules_accessed = 0
    /\ returned = [op |-> "none"]
    /\ violations = <<>>
    /\ h_calls = <<>>
    /\ h_fault = <<>>
    /\ h_last = <<>>

RankNext == \E q \in RankQueries, c \in RankCategories : SearchRules(q, c)

RankSpec == RankInit /\ [][RankNext]_vars

\* the call that returned last is a search with a query
QuerySearch == returned.op = "search_rules" /\ returned.query # EmptyQuery

\* the score as the sum of its terms: title 100, each keyword 80 if equal to
\* the query or else 40 if it contains it, content 30, subcategory 20, id 60
ScoreTerms(query, rule_id, rule_data) ==
    LET q == StrLower(query)
        kw(k) == StrLower(rule_data.keywords[k])
        equal == {k \in 1..Len(rule_data.keywords) : kw(k) = q}
        holds == {k \in 1..Len(rule_data.keywords) : Contains(q, kw(k))}
    IN    (IF Contains(q, StrLower(rule_data.title)) THEN 100 ELSE 0)
        + 80 * Cardinality(equal)
        + 40 * Cardinality(holds \ equal)
        + (IF Contains(q, StrLower(rule_data.content)) THEN 30 ELSE 0)
        + (IF Contains(q, StrLower(rule_data.subcategory)) THEN 20 ELSE 0)
        + (IF Contains(q, StrLower(rule_id)) THEN 60 ELSE 0)

\* C12: for a non-empty query the score of a rule is the sum, compared
\* case-insensitively, of 100 (title), 80 or else 40 per keyword, 30
\* (content), 20 (subcategory) and 60 (rule id); a rule is returned only if
\* the sum is above 0, and the category filter only removes rules: it never
\* changes a score.
C12_ScoreIsSumOfTerms ==
    QuerySearch =>
        /\ \A i \in 1..Len(returned.value) :
               LET rule == returned.value[i] IN
               /\ rule.search_score =
                      ScoreTerms(returned.query, rule.rule_id,
                                 RuleOf(rules_database, rule.rule_id))
               /\ rule.search_score > 0
               /\ returned.category # NoCategory => rule.category = returned.category
        /\ \A k \in 1..Len(rules_database) :
               LET item == rules_database[k] IN
               (/\ ScoreTerms(returned.query, item.id, item.rule) > 0
                /\ returned.category \in {NoCategory, item.rule.category}
                /\ Len(returned.value) < DefaultLimit)
                   => item.id \in Returned_ids

\* a query with a capital letter and no category returned a rule whose score
\* is a keyword term plus the content term (40 + 30), and left out a rule
\* that the query matches nowhere
C12_Witness ==
    /\ QuerySearch
    /\ returned.category = NoCategory
    /\ StrLower(returned.query) # returned.query
    /\ \E i \in 1..Len(returned.value) : returned.value[i].search_score = 70
    /\ \E k \in 1..Len(rules_database) :
           /\ ScoreTerms(returned.query, rules_database[k].id, rules_database[k].rule) = 0
           /\ rules_database[k].id \notin Returned_ids

\* the query matches the returned rule through exactly one keyword, which
\* equals it, and through nothing else
OnlyExactKeyword(rule) ==
    LET q == StrLower(returned.query)
        equal == {k \in 1..Len(rule.keywords) : StrLower(rule.keywords[k]) = q}
    IN  Cardinality(equal) = 1 /\ rule.search_score = 80

\* the query matches the returned rule through its content and nothing else
OnlyContent(rule) ==
    /\ Contains(StrLower(returned.query), StrLower(rule.content))
    /\ rule.search_score = 30

\* C13, as the spec states it: a high-priority rule whose only match is one
\* exact keyword match has ranking key 580 and is ranked above every rule
\* that matches through content only, whatever the priority of that rule.
C13_KeywordAboveAnyContentOnly ==
    QuerySearch =>
        \A i, j \in 1..Len(returned.value) :
            (/\ returned.value[i].priority = "high"
             /\ OnlyExactKeyword(returned.value[i])
             /\ OnlyContent(returned.value[j]))
                => /\ RankingKey(returned.value[i]) = 580
                   /\ i < j

\* C13, amended: a high-priority rule whose only match is one exact keyword
\* match has ranking key 580; it is ranked above every content-only rule of
\* priority low, medium or high (keys 80, 130, 530) and below every
\* content-only rule of priority critical (key 1030).
C13_KeywordAboveContentOnlyBelowCritical ==
    QuerySearch =>
        \A i, j \in 1..Len(returned.value) :
            (/\ returned.value[i].priority = "high"
             /\ OnlyExactKeyword(returned.value[i])
             /\ OnlyContent(returned.value[j]))
                => /\ RankingKey(returned.value[i]) = 580
                   /\ returned.value[j].priority # "critical" => i < j
                   /\ returned.value[j].priority = "critical" =>
                          /\ RankingKey(returned.value[j]) = 1030
                          /\ j < i

\* a search returned a high-priority rule matched by one exact keyword ahead
\* of a content-only rule that precedes it in the collection
C13_Witness ==
    /\ QuerySearch
    /\ \E i, j \in 1..Len(returned.value) :
           /\ returned.value[i].priority = "high"
           /\ OnlyExactKeyword(returned.value[i])
           /\ OnlyContent(returned.value[j])
           /\ returned.value[j].priority = "high"
           /\ i < j
           /\ PositionOf(returned.value[j].rule_id)
                  < PositionOf(returned.value[i].rule_id)

(***************************************************************************)
(* Editing the rule collection: add_rule, update_rule, delete_rule and     *)
(* import_rules, each with a save of the rule file that may fail           *)
(***************************************************************************)
MaxEdited == 2

\* an argument of update_rule that is not given: None, '' and {} are all falsy
NoTitle == <<>>
NoPriority == ""

\* RuleManagementSystem.update_rule: the collection, the file and the value
\* returned.  The rule object is changed in place before the save.
update_rule(db, file, rule_id, upd, saveOk) ==
    IF rule_id \notin RuleIds(db)
    THEN [db |-> db, file |-> file, value |-> FALSE]
    ELSE LET old == RuleOf(db, rule_id)
             r1 == IF upd.title # NoTitle THEN [old EXCEPT !.title = upd.title] ELSE old
             r2 == IF /\ upd.priority # NoPriority
                      /\ priority_lower(upd.priority) \in Priorities
                   THEN Put(r1, "priority", priority_lower(upd.priority))
                   ELSE r1
             r3 == IF upd.punishments # NoLadder
                   THEN Put(r2, "punishments", upd.punishments)
                   ELSE r2
             rule_data == Put(r3, "last_updated", now)
             changed == [i \in 1..Len(db) |->
                            IF db[i].id = rule_id
                            THEN [id |-> rule_id, rule |-> rule_data]
                            ELSE db[i]]
         IN  [db |-> changed, file |-> save_rules_database(changed, file, saveOk),
              value |-> saveOk]

\* RuleManagementSystem.delete_rule
delete_rule(db, file, rule_id, saveOk) ==
    IF rule_id \notin RuleIds(db)
    THEN [db |-> db, file |-> file, value |-> FALSE]
    ELSE LET keep(e) == e.id # rule_id
             left == SelectSeq(db, keep)
         IN  [db |-> left, file |-> save_rules_database(left, file, saveOk),
              value |-> saveOk]

\* RuleManagementSystem.import_rules of a file that holds the rules `data` and
\* no categories: the rules whose id is new are taken over as they are
import_rules(db, file, data, readOk, saveOk) ==
    IF ~readOk
    THEN [db |-> db, file |-> file, ok |-> FALSE, value |-> "Import failed"]
    ELSE LET new(e) == e.id \notin RuleIds(db)
             merged == db \o SelectSeq(data, new)
         IN  IF saveOk
             THEN [db |-> merged, file |-> save_rules_database(merged, file, saveOk),
                   ok |-> TRUE, value |-> Len(SelectSeq(data, new))]
             ELSE [db |-> db, file |-> file, ok |-> FALSE,
                   value |-> "Failed to save imported rules"]

\* arguments of add_rule with a priority in capitals and with an unknown one
GeneralCapitals == [GeneralLow EXCEPT !.priority = "HIGH"]
VehicleUrgent == [VehicleMedium EXCEPT !.priority = "urgent"]

EditInputs == {GeneralHigh, GeneralCapitals, VehicleUrgent}

\* arguments of update_rule
Retitled == <<"C", "a", "l", "m">>
UpdateInputs ==
    {[title |-> Retitled, priority |-> NoPriority, punishments |-> NoLadder],
     [title |-> NoTitle, priority |-> "HIGH", punishments |-> NoLadder],
     [title |-> NoTitle, priority |-> "urgent",
      punishments |-> [r \in {"severe"} |-> DefaultLadder[r]]]}

\* the ids that update_rule and delete_rule are called with
EditIds == {<<"G", "R", "0", "0", "1">>, <<"V", "H", "0", "0", "1">>}

\* rule files to import: a rule exported from another collection, and a rule
\* written by hand whose priority is none of the four
ImportFiles ==
    {<<[id |-> <<"G", "R", "0", "0", "1">>,
        rule |-> RuleData("General Rules", Behavior, Retitled, GeneralLow.content,
                          GeneralLow.keywords, "low", NoLadder)]>>,
     <<[id |-> <<"E", "V", "0", "0", "1">>,
        rule |-> [RuleData("Event Rules", Racing, Retitled, VehicleMedium.content,
                           VehicleMedium.keywords, "medium", NoLadder)
                     EXCEPT !.priority = "urgent"]]>>}

AddRule(inp, saveOk) ==
    LET r == add_rule(rules_database, rules_file, inp, saveOk) IN
    /\ Len(rules_database) < MaxEdited
    /\ rules_database' = r.db
    /\ rules_file' = r.file
    /\ returned' = [op |-> "add_rule", ok |-> r.ok, value |-> r.value]
    /\ UNCHANGED <<tvars, rules_accessed, pvars>>

UpdateRule(rule_id, upd, saveOk) ==
    LET r == update_rule(rules_database, rules_file, rule_id, upd, saveOk) IN
    /\ rules_database' = r.db
    /\ rules_file' = r.file
    /\ returned' = [op |-> "update_rule", rule_id |-> rule_id, value |-> r.value]
    /\ UNCHANGED <<tvars, rules_accessed, pvars>>

DeleteRule(rule_id, saveOk) ==
    LET r == delete_rule(rules_database, rules_file, rule_id, saveOk) IN
    /\ rules_database' = r.db
    /\ rules_file' = r.file
    /\ returned' = [op |-> "delete_rule", rule_id |-> rule_id, value |-> r.value]
    /\ UNCHANGED <<tvars, rules_accessed, pvars>>

ImportRules(data, readOk, saveOk) ==
    LET r == import_rules(rules_database, rules_file, data, readOk, saveOk) IN
    /\ Len(rules_database) < MaxEdited
    /\ rules_database' = r.db
    /\ rules_file' = r.file
    /\ returned' = [op |-> "import_rules", ok |-> r.ok, value |-> r.value]
    /\ UNCHANGED <<tvars, rules_accessed, pvars>>

EditNext ==
    \/ \E inp \in EditInputs, saveOk \in BOOLEAN : AddRule(inp, saveOk)
    \/ \E id \in EditIds, upd \in UpdateInputs, saveOk \in BOOLEAN :
           UpdateRule(id, upd, saveOk)
    \/ \E id \in EditIds, saveOk \in BOOLEAN : DeleteRule(id, saveOk)
    \/ \E data \in ImportFiles, readOk \in BOOLEAN, saveOk \in BOOLEAN :
           ImportRules(data, readOk, saveOk)

EditSpec == Init /\ [][EditNext]_vars

\* the step is a call of update_rule or delete_rule for a rule of the
\* collection whose save failed
FailedEdit ==
    /\ returned'.op \in {"update_rule", "delete_rule"}
    /\ returned'.rule_id \in RuleIds(rules_database)
    /\ rules_file' = rules_file
    /\ ~returned'.value

\* C17: when the save of the rule store fails, update_rule and delete_rule
\* report failure and leave the in-memory rule collection as it was before
\* the call.
C17_FailedEditChangesNothing ==
    [][FailedEdit => rules_database' = rules_database]_vars

\* C19: after any sequence of add_rule, update_rule, delete_rule and
\* import_rules, every rule of the collection has a priority in
\* {low, medium, high, critical}.
C19_PrioritiesValid ==
    \A i \in 1..Len(rules_database) :
        /\ "priority" \in DOMAIN rules_database[i].rule
        /\ rules_database[i].rule.priority \in Priorities

\* the step is a call of add_rule or import_rules whose save failed: the
\* message returned with False says so
FailedSave ==
    \/ /\ returned'.op = "add_rule"
       /\ ~returned'.ok
       /\ returned'.value = "Failed to save rule to database"
    \/ /\ returned'.op = "import_rules"
       /\ ~returned'.ok
       /\ returned'.value = "Failed to save imported rules"

\* C26: when saving the rule store fails, add_rule and import_rules report
\* failure and the in-memory rule collection equals its value before the
\* call: the added rule is removed again, an import is rolled back.  (A
\* call that reports success has saved: the file holds the collection.)
C26_FailedSaveRollsBack ==
    [][/\ FailedSave => rules_database' = rules_database
       /\ (returned'.op \in {"add_rule", "import_rules"} /\ returned'.ok) =>
              rules_file' = rules_database']_vars

\* an add_rule whose save failed has returned, on a collection that holds a
\* rule, and the file holds what the collection holds
C26_Witness ==
    /\ returned.op = "add_rule"
    /\ ~returned.ok
    /\ returned.value = "Failed to save rule to database"
    /\ rules_database # <<>>
    /\ rules_file = rules_database

(***************************************************************************)
(* Searches between the saves of the rule store                            *)
(***************************************************************************)
FrameNext ==
    \/ \E inp \in RuleInputs, saveOk \in BOOLEAN : AddRule(inp, saveOk)
    \/ \E id \in EditIds, saveOk \in BOOLEAN : DeleteRule(id, saveOk)
    \/ \E q \in Queries, c \in CategoryInputs : SearchRules(q, c)

FrameSpec == Init /\ [][FrameNext]_vars

\* the fields that search_rules gives the rules it returns
SearchFields == {"rule_id", "search_score"}

\* C27: search_rules is read-only on the rule store: the stored rule records
\* are the same before and after any search, and no rule_id or search_score
\* field of a stored record is written to the rules file by a later save.
C27_SearchIsReadOnly ==
    [][/\ returned'.op = "search_rules" => rules_database' = rules_database
       /\ \A i \in 1..Len(rules_file') :
              DOMAIN rules_file'[i].rule \cap SearchFields = {}]_vars

(***************************************************************************)
(* The punishment ladder and table rule_violations                         *)
(***************************************************************************)
\* the value None where a punishment is expected
None == [none |-> TRUE]

\* the punishment of a call that finds no rule or no ladder
DefaultPunishment ==
    [type |-> "warning", duration |-> "None", fine |-> 5000,
     details |-> "Standard warning + $5,000 fine"]

\* the severe rung of a ladder that has none
RepeatOffender ==
    [type |-> "perm_ban", duration |-> "None", fine |-> 0,
     details |-> "Repeat offender - permanent ban"]

\* expires_at of a record that does not expire
NoExpiry == -1

\* the record has not expired: expires_at IS NULL OR expires_at > now
Active(v) == v.expires_at = NoExpiry \/ v.expires_at > now * 60

\* CommunityDatabase.get_user_violations: the rows of the user, [] on an error
get_user_violations(rows, user_id, active_only, readOk) ==
    LET mine(v) == v.user_id = user_id /\ (active_only => Active(v)) IN
    IF readOk THEN SelectSeq(rows, mine) ELSE <<>>

\* check_user_violations without its filter on the rule
check_user_violations_any_rule(rows, user_id, rule_id, readOk) ==
    Len(get_user_violations(rows, user_id, FALSE, readOk))

\* check_user_violations that asks for the active records only
check_user_violations_active_only(rows, user_id, rule_id, readOk) ==
    LET same_rule(v) == v.rule_id = rule_id IN
    Len(SelectSeq(get_user_violations(rows, user_id, TRUE, readOk), same_rule))

\* RuleManagementSystem.check_user_violations
check_user_violations(rows, user_id, rule_id, readOk) ==
    LET same_rule(v) == v.rule_id = rule_id IN
    Len(SelectSeq(get_user_violations(rows, user_id, FALSE, readOk), same_rule))

\* punishments.get(rung, default)
LadderGet(punishments, rung, default) ==
    IF rung \in DOMAIN punishments THEN punishments[rung] ELSE default

\* RuleManagementSystem.get_appropriate_punishment
get_appropriate_punishment(db, rows, user_id, rule_id, readOk) ==
    LET offense_count == check_user_violations(rows, user_id, rule_id, readOk) IN
    IF rule_id \notin RuleIds(db) \/ "punishments" \notin DOMAIN RuleOf(db, rule_id)
    THEN DefaultPunishment
    ELSE LET punishments == RuleOf(db, rule_id).punishments
             severe == LadderGet(punishments, "severe", None)
         IN  IF offense_count = 0 THEN LadderGet(punishments, "first_offense", severe)
             ELSE IF offense_count = 1 THEN LadderGet(punishments, "second_offense", severe)
             ELSE IF offense_count = 2 THEN LadderGet(punishments, "third_offense", severe)
             ELSE LadderGet(punishments, "severe", RepeatOffender)

\* punishment['duration'] in minutes
Minutes(duration) ==
    CASE duration = "60" -> 60
      [] duration = "1440" -> 1440
      [] OTHER -> 0

\* the row CommunityDatabase.log_rule_violation inserts; times are in minutes
ViolationRow(user_id, rule_id, punishment) ==
    [user_id |-> user_id, rule_id |-> rule_id,
     punishment_applied |-> punishment.type,
     punishment_duration |-> punishment.duration, fine_amount |-> 0,
     expires_at |-> IF punishment.duration # "None"
                    THEN now * 60 + Minutes(punishment.duration)
                    ELSE NoExpiry]

\* CommunityDatabase.log_rule_violation: the table after the call and the
\* value returned
log_rule_violation(rows, user_id, rule_id, punishment, writeOk) ==
    IF punishment # None /\ writeOk
    THEN [rows |-> Append(rows, ViolationRow(user_id, rule_id, punishment)), ok |-> TRUE]
    ELSE [rows |-> rows, ok |-> FALSE]

\* no call of get_appropriate_punishment for the pair yet
NoCall == [count |-> -1, read |-> TRUE]

Offenders == {"alice", "sam"}
PunishRules == <<GeneralHigh, VehiclePartial>>
PunishDatabase == AddedRules(Len(PunishRules), PunishRules)
Pairs == Offenders \X RuleIds(PunishDatabase)

\* the calls of get_appropriate_punishment so far
RECURSIVE Calls(_)
Calls(prs) ==
    IF prs = {} THEN 0
    ELSE LET pr == CHOOSE x \in prs : TRUE IN h_calls[pr] + Calls(prs \ {pr})

PunishInit ==
    /\ TicketInit
    /\ rules_database = PunishDatabase
    /\ rules_file = PunishDatabase
    /\ rules_accessed = 0
    /\ returned = [op |-> "none"]
    /\ violations = <<>>
    /\ h_calls = [pr \in Pairs |-> 0]
    /\ h_fault = [pr \in Pairs |-> FALSE]
    /\ h_last = [pr \in Pairs |-> NoCall]

\* a violation is being issued: the punishment is looked up
GetPunishment(user_id, rule_id, readOk) ==
    /\ returned.op # "get_appropriate_punishment"
    /\ Calls(Pairs) < MaxCalls
    /\ returned' = [op |-> "get_appropriate_punishment",
                    user_id |-> user_id, rule_id |-> rule_id,
                    value |-> get_appropriate_punishment(rules_database, violations,
                                                         user_id, rule_id, readOk)]
    /\ h_calls' = [h_calls EXCEPT ![<<user_id, rule_id>>] = @ + 1]
    /\ h_fault' = [h_fault EXCEPT ![<<user_id, rule_id>>] = @ \/ ~readOk]
    /\ h_last' = [h_last EXCEPT ![<<user_id, rule_id>>] =
                     [count |-> check_user_violations(violations, user_id, rule_id, readOk),
                      read |-> readOk]]
    /\ UNCHANGED <<tvars, rvars, violations>>

\* the violation is recorded with the punishment that was looked up
LogViolation(writeOk) ==
    /\ returned.op = "get_appropriate_punishment"
    /\ LET r == log_rule_violation(violations, returned.user_id, returned.rule_id,
                                   returned.value, writeOk)
       IN  /\ violations' = r.rows
           /\ returned' = [op |-> "log_rule_violation", value |-> r.ok]
           /\ h_fault' = [h_fault EXCEPT ![<<returned.user_id, returned.rule_id>>] =
                             @ \/ ~r.ok]
    /\ UNCHANGED <<tvars, rvars, h_calls, h_last>>

\* the ladder of the rule has its four rungs
FullLadder(rule_id) ==
    /\ rule_id \in RuleIds(rules_database)
    /\ DOMAIN RuleOf(rules_database, rule_id).punishments
           = {Rungs[i] : i \in 1..4}

\* the call that returned last is the k-th of a series in which every
\* violation was recorded
KthCall(k) ==
    /\ returned.op = "get_appropriate_punishment"
    /\ FullLadder(returned.rule_id)
    /\ ~h_fault[<<returned.user_id, returned.rule_id>>]
    /\ h_calls[<<returned.user_id, returned.rule_id>>] = k

PunishNext ==
    \/ \E u \in Offenders, r \in RuleIds(PunishDatabase), readOk \in BOOLEAN :
           GetPunishment(u, r, readOk)
    \/ \E writeOk \in BOOLEAN : LogViolation(writeOk)

PunishSpec == PunishInit /\ [][PunishNext]_vars

(***************************************************************************)
(* Violations issued while time passes, so that records expire             *)
(***************************************************************************)
\* the id of the first rule of category "General Rules"
LadderRule == <<"G", "R", "0", "0", "1">>

\* a user and a rule, another user with the same rule, and the same user
\* with another rule
CountPairs ==
    {pr \in Pairs : pr[1] = "alice" \/ pr[2] = LadderRule}

CountNext ==
    \/ \E pr \in CountPairs, readOk \in BOOLEAN : GetPunishment(pr[1], pr[2], readOk)
    \/ \E writeOk \in BOOLEAN : LogViolation(writeOk)
    \/ Tick

CountSpec == PunishInit /\ [][CountNext]_vars

\* the stored records of the user and the rule
Stored(user_id, rule_id) ==
    {i \in 1..Len(violations) :
        violations[i].user_id = user_id /\ violations[i].rule_id = rule_id}

\* the call that returned last is get_appropriate_punishment, and its read of
\* the store returned the rows
CountedCall ==
    /\ returned.op = "get_appropriate_punishment"
    /\ h_last[<<returned.user_id, returned.rule_id>>].read

RungFor(count) == Min(count + 1, 4)

\* C16: violation records are append-only, so the offense count computed
\* for a pair never decreases from one call to a later one and the rung
\* selected never steps back, also when a store read fails.
C16_CountNeverDecreases ==
    [][/\ Len(violations') >= Len(violations)
       /\ SubSeq(violations', 1, Len(violations)) = violations
       /\ \A pr \in Pairs :
              h_last[pr] # NoCall =>
                  /\ h_last'[pr].count >= h_last[pr].count
                  /\ RungFor(h_last'[pr].count) >= RungFor(h_last[pr].count)]_vars

(***************************************************************************)
(* One rule, loaded from the rule file with any ladder, and one offender   *)
(***************************************************************************)
\* a stored rule whose 'punishments' holds the rungs S of the default ladder
WithLadder(S) ==
    [RuleData("General Rules", Behavior, GeneralHigh.title, GeneralHigh.content,
              GeneralHigh.keywords, "high", DefaultLadder)
        EXCEPT !.punishments = [r \in S |-> DefaultLadder[r]]]

\* a stored rule without the key 'punishments'
WithoutLadder ==
    [k \in DOMAIN WithLadder({}) \ {"punishments"} |-> WithLadder({})[k]]

StoredRules ==
    {WithLadder(S) : S \in SUBSET {Rungs[i] : i \in 1..4}} \cup {WithoutLadder}

\* load_rules_database: the collection is what the rule file holds
LadderInit ==
    /\ TicketInit
    /\ \E rule \in StoredRules :
           /\ rules_database = <<[id |-> LadderRule, rule |-> rule]>>
           /\ rules_file = <<[id |-> LadderRule, rule |-> rule]>>
    /\ rules_accessed = 0
    /\ returned = [op |-> "none"]
    /\ violations = <<>>
    /\ h_calls = [pr \in Pairs |-> 0]
    /\ h_fault = [pr \in Pairs |-> FALSE]
    /\ h_last = [pr \in Pairs |-> NoCall]

LadderNext ==
    \/ \E readOk \in BOOLEAN : GetPunishment("alice", LadderRule, readOk)
    \/ \E writeOk \in BOOLEAN : LogViolation(writeOk)

LadderSpec == LadderInit /\ [][LadderNext]_vars

\* the punishments the claim allows for a stored rule and an offense count:
\* the rung of the count, else the severe rung, else a default punishment
Allowed(rule, count) ==
    LET rung == Rungs[Min(count + 1, 4)] IN
    IF "punishments" \notin DOMAIN rule THEN {DefaultPunishment, RepeatOffender}
    ELSE IF rung \in DOMAIN rule.punishments THEN {rule.punishments[rung]}
    ELSE IF "severe" \in DOMAIN rule.punishments THEN {rule.punishments["severe"]}
    ELSE {DefaultPunishment, RepeatOffender}

\* C14: for every ladder (any subset of the four rungs, none included) and
\* every offense count, get_appropriate_punishment returns a punishment, never
\* the empty value: the rung of the count when the ladder has it, otherwise
\* the severe rung, otherwise a default punishment.
C14_AlwaysAPunishment ==
    returned.op = "get_appropriate_punishment" =>
        /\ returned.value # None
        /\ ~h_fault[<<returned.user_id, returned.rule_id>>] =>
               returned.value \in
                   Allowed(RuleOf(rules_database, returned.rule_id),
                           h_calls[<<returned.user_id, returned.rule_id>>] - 1)

(***************************************************************************)
(* Rules added and deleted while violations are issued                     *)
(***************************************************************************)
ReuseInit ==
    /\ TicketInit
    /\ rules_database = <<>>
    /\ rules_file = <<>>
    /\ rules_accessed = 0
    /\ returned = [op |-> "none"]
    /\ violations = <<>>
    /\ h_calls = [pr \in Pairs |-> 0]
    /\ h_fault = [pr \in Pairs |-> FALSE]
    /\ h_last = [pr \in Pairs |-> NoCall]

\* a violation of a rule of the collection is being issued
IssueViolation(user_id, rule_id, readOk) ==
    /\ rule_id \in RuleIds(rules_database)
    /\ GetPunishment(user_id, rule_id, readOk)

ReuseNext ==
    \/ \E saveOk \in BOOLEAN : AddRule(GeneralHigh, saveOk)
    \/ \E saveOk \in BOOLEAN : DeleteRule(LadderRule, saveOk)
    \/ \E readOk \in BOOLEAN : IssueViolation("alice", LadderRule, readOk)
    \/ \E writeOk \in BOOLEAN : LogViolation(writeOk)

ReuseSpec == ReuseInit /\ [][ReuseNext]_vars

\* the rule ids that violation records were logged against; a record is
\* logged against a rule of the collection, so each of them was held by a rule
RecordedIds == {violations[i].rule_id : i \in 1..Len(violations)}

\* C28: rule ids are never reused: every successful add_rule returns an id
\* that no other rule holds or has held before, after any sequence of
\* add_rule and delete_rule, so that no violation record logged against a
\* deleted rule counts as a prior offense of a rule added later.
C28_RuleIdsNeverReused ==
    [][(returned'.op = "add_rule" /\ returned'.ok) =>
          /\ returned'.value \notin RuleIds(rules_database)
          /\ returned'.value \notin RecordedIds]_vars

====
